---- MODULE Spec2Model ----
(***************************************************************************)
(* Conversation memory and report derivation of the financial-advisory     *)
(* chat backend: MemoryManager (backend/src/services/memoryManager.ts)     *)
(* and ReportService (backend/src/services/reportService.ts).              *)
(*                                                                         *)
(* Every async method is cut at its awaits: the code up to the first await *)
(* is one action, and each continuation (the awaited promise resolving or  *)
(* rejecting) is another.  Calls in flight live in `calls`, one slot per   *)
(* concurrently running request.                                           *)
(***************************************************************************)
EXTENDS Integers, Sequences, FiniteSets, TLC

VARIABLES
    conversationHistories,  \* Map<string, ConversationMessage[]>
    conversationSummaries,  \* Map<string, string>
    pendingUserMessages,    \* Map<string, string>
    vectorstore,            \* the batches accepted by Chroma.addDocuments, in order
    calls,                  \* per request slot: the suspended call, or idle
    last,                   \* what the last step was and what it returned
    callLog,                \* per conversation: the addMessage calls, in call order
    inferences,             \* per conversation: summarization inference calls issued
    summaryCalls,           \* per conversation: getConversationSummary calls made
    reports,                \* ReportService.reports: Map<string, ReportData>
    now,                    \* Date.now(), in milliseconds
    rateLimitStore,         \* rateLimiter.ts: Map<string, RateLimitInfo>
    admitted,               \* per client: the requests passed on since its window began
    authorization_tokens,   \* the rows of the table authorization_tokens
    client_sessions,        \* the rows of the table client_sessions
    granted,                \* per passcode row: the verifications that returned true
    uuids,                  \* the uuids drawn so far
    authRequests            \* per auth route: the requests accepted so far

vars == <<conversationHistories, conversationSummaries, pendingUserMessages,
          vectorstore, calls, last, callLog, inferences, summaryCalls, reports, now,
          rateLimitStore, admitted, authorization_tokens, client_sessions, granted,
          uuids, authRequests>>

authVars == <<authorization_tokens, client_sessions, granted, uuids, authRequests>>
serverVars == <<rateLimitStore, admitted, authVars>>

reportVars == <<reports, now>>

----------------------------------------------------------------------------
(* Bounds and input domains *)

MaxMsgs == 3            \* addMessage calls in a run of Spec
MaxSummaryMsgs == 2     \* addMessage calls in a run of SpecSummary
MaxSummaryCalls == 3    \* getConversationSummary calls in a run of SpecSummary
MaxExtractMsgs == 2     \* addMessage calls in a run of SpecExtract
MaxReportMsgs == 1      \* addMessage calls in a run of SpecReport
MaxReports == 1         \* reports stored or in the making in a run of SpecReport
MaxNow == 1             \* the clock's last value
MaxStoreMsgs == 1       \* addMessage calls in a run of SpecStore
MaxStoreReports == 2    \* reports stored or in the making in a run of SpecStore
MaxSearchMsgs == 2      \* addMessage calls in a run of SpecSearch
MaxRouteRequests == 2   \* requests accepted in a run of SpecRoutes
MaxFrameMsgs == 2       \* addMessage calls in a run of SpecFrame
MaxFrameCalls == 1      \* summary calls, and reports, in a run of SpecFrame
MaxChatRequests == 2    \* chat requests accepted in a run of SpecChat
MaxElapses == 4         \* cleanup periods that pass in a run of SpecLimiter
MaxOtherRequests == 1   \* requests counted for the second client in SpecLimiter
MaxPasscodes == 1       \* passcodes asked for in a run of SpecAuth
MaxVerifications == 2   \* verify-token requests accepted in a run of SpecAuth
MaxSessions == 1        \* verify-token requests accepted in a run of SpecSession
MaxSessionRequests == 2 \* validate-session and logout requests accepted in SpecSession
MaxPasscodeElapses == 1 \* passcode lifetimes that pass in a run of SpecAuth
MaxSessionElapses == 1  \* session lifetimes that pass in a run of SpecSession

ConvIds == {"c1", "c2"}
Procs == {"p1", "p2"}
\* A user message reaches addMessage only past `!message` (routes/chat.ts:20,
\* the socket handler), so it is never the empty string; a reply may be.
UserTexts == {"a", "b"}
AssistantTexts == {"", "x"}
\* completion.choices[0]?.message?.content of a summarization: absent, empty, or text
Roles == {"user", "assistant"}
TextsOf(role) == IF role = "user" THEN UserTexts ELSE AssistantTexts

----------------------------------------------------------------------------
(* Map helpers: a JS Map is a function whose DOMAIN is the set of its keys *)

Has(map, k) == k \in DOMAIN map
Put(map, k, v) == [x \in (DOMAIN map) \cup {k} |-> IF x = k THEN v ELSE map[x]]
Delete(map, k) == [x \in (DOMAIN map) \ {k} |-> map[x]]
EmptyMap == [x \in {} |-> x]

\* Map.get: the value, or undefined (a value no message text equals)
Undefined == "<undefined>"
Get(map, k) == IF Has(map, k) THEN map[k] ELSE Undefined

\* JS truthiness of a string or undefined
Truthy(s) == s # "" /\ s # Undefined

Idle == [pc |-> "idle"]
Step(op, c, outcome, value) == [op |-> op, c |-> c, outcome |-> outcome, value |-> value]

TotalMsgs == Len(callLog["c1"]) + Len(callLog["c2"])
TotalSummaryCalls == summaryCalls["c1"] + summaryCalls["c2"]

\* a request is served in any free slot; which one makes no difference
SlotFree == \E q \in Procs : calls[q] = Idle
FreeSlot == CHOOSE q \in Procs : calls[q] = Idle

----------------------------------------------------------------------------
(* MemoryManager.addMessage *)

ConversationMessage(role, message) == [role |-> role, content |-> message]

\* variant: the history is re-created on every call (line 36 without its test)
PushMessage_Reset(histories, c, role, message) ==
    Put(histories, c, <<ConversationMessage(role, message)>>)

\* variant: the message is put in front of the history
PushMessage_Front(histories, c, role, message) ==
    LET h == IF Has(histories, c) THEN histories ELSE Put(histories, c, <<>>)
    IN  Put(h, c, <<ConversationMessage(role, message)>> \o h[c])

\* lines 36-45: create the history on first use, push the message
PushMessage(histories, c, role, message) ==
    LET h == IF Has(histories, c) THEN histories ELSE Put(histories, c, <<>>)
    IN  Put(h, c, Append(h[c], ConversationMessage(role, message)))

\* variant: the first unpaired user message is kept instead of the latest
StorePending_KeepFirst(pending, c, role, message) ==
    IF role = "user" /\ ~Has(pending, c) THEN Put(pending, c, message) ELSE pending

\* variant: lines 48-51 without the test of the role
StorePending_AnyRole(pending, c, role, message) == Put(pending, c, message)

\* lines 48-51: a user message overwrites the pending entry
StorePending(pending, c, role, message) ==
    IF role = "user" THEN Put(pending, c, message) ELSE pending

\* variant: line 56 without its test of the pending message
ShouldIndex_NoPendingTest(pending, c, role) ==
    role = "assistant"

\* variant: line 54 without its test of the role
ShouldIndex_AnyRole(pending, c, role) ==
    Truthy(Get(pending, c))

\* lines 54-56: an assistant message whose pending user message is truthy is indexed
ShouldIndex(pending, c, role) ==
    role = "assistant" /\ Truthy(Get(pending, c))

\* lines 62-79: the two documents handed to vectorstore.addDocuments
Documents(c, userMessage, message) ==
    << [pageContent |-> userMessage, conversationId |-> c, role |-> "user"],
       [pageContent |-> message, conversationId |-> c, role |-> "assistant"] >>

\* variant: line 82 missing
ClearPending_Keep(pending, c) == pending

\* line 82
ClearPending(pending, c) == Delete(pending, c)

\* lines 32-62: up to the await of addDocuments
AddMessage(p, c, role, message) ==
    /\ UNCHANGED <<reportVars, serverVars>>
    /\ calls[p] = Idle
    /\ conversationHistories' = PushMessage(conversationHistories, c, role, message)
    /\ callLog' = [callLog EXCEPT ![c] = Append(@, ConversationMessage(role, message))]
    /\ pendingUserMessages' = StorePending(pendingUserMessages, c, role, message)
    /\ IF ShouldIndex(pendingUserMessages, c, role)
       THEN /\ calls' = [calls EXCEPT ![p] =
                    [pc |-> "addDocuments", c |-> c,
                     docs |-> Documents(c, Get(pendingUserMessages, c), message),
                     at |-> Len(conversationHistories'[c])]]
            /\ last' = Step("addMessage", c, "await", role)
       ELSE /\ calls' = calls
            /\ last' = Step("addMessage", c, "ok", role)
    /\ UNCHANGED <<conversationSummaries, vectorstore, inferences, summaryCalls>>

\* lines 62-86: addDocuments resolved; the pending entry is cleared
AddDocumentsResolved(p) ==
    /\ UNCHANGED <<reportVars, serverVars>>
    /\ calls[p].pc = "addDocuments"
    /\ vectorstore' = Append(vectorstore, [docs |-> calls[p].docs, at |-> calls[p].at])
    /\ pendingUserMessages' = ClearPending(pendingUserMessages, calls[p].c)
    /\ calls' = [calls EXCEPT ![p] = Idle]
    /\ last' = Step("addMessage", calls[p].c, "ok", "assistant")
    /\ UNCHANGED <<conversationHistories, conversationSummaries, callLog, inferences,
                   summaryCalls>>

\* line 62: addDocuments rejected; addMessage has no try/catch, the rejection
\* leaves through it and line 82 is not reached
AddDocumentsRejected(p) ==
    /\ UNCHANGED <<reportVars, serverVars>>
    /\ calls[p].pc = "addDocuments"
    /\ calls' = [calls EXCEPT ![p] = Idle]
    /\ last' = Step("addMessage", calls[p].c, "error", "assistant")
    /\ UNCHANGED <<conversationHistories, conversationSummaries, pendingUserMessages,
                   vectorstore, callLog, inferences, summaryCalls>>

----------------------------------------------------------------------------
(* MemoryManager.getConversationHistory *)

\* line 89
getConversationHistory(c) ==
    IF Has(conversationHistories, c) THEN conversationHistories[c] ELSE <<>>

GetConversationHistory(c) ==
    /\ UNCHANGED <<reportVars, serverVars>>
    /\ last' = Step("getConversationHistory", c, "ok", getConversationHistory(c))
    /\ UNCHANGED <<conversationHistories, conversationSummaries, pendingUserMessages,
                   vectorstore, calls, callLog, inferences, summaryCalls>>

----------------------------------------------------------------------------
(* MemoryManager.getConversationSummary *)

NoHistorySummary == "No conversation history yet."
ErrorSummary == "Error generating summary."
UnableSummary == "Unable to generate summary"

\* lines 121-123: one "role: content" line per message
ConversationText(history) ==
    [i \in 1..Len(history) |-> <<history[i].role, history[i].content>>]

\* line 141: content || 'Unable to generate summary'
SummaryOf(content) == IF Truthy(content) THEN content ELSE UnableSummary

\* variant: the summary is returned without being cached
CacheSummary_Skip(summaries, c, summary) == summaries

\* lines 116, 143, 147
CacheSummary(summaries, c, summary) == Put(summaries, c, summary)

\* lines 109-125: up to the await of the inference call.  The await of
\* getConversationHistory at line 114 resumes in the same turn of the event
\* loop, before any other request or response is handled.
GetConversationSummary(p, c) ==
    /\ UNCHANGED <<reportVars, serverVars>>
    /\ calls[p] = Idle
    /\ summaryCalls' = [summaryCalls EXCEPT ![c] = @ + 1]
    /\ IF Has(conversationSummaries, c)
       THEN /\ last' = Step("getConversationSummary", c, "ok", conversationSummaries[c])
            /\ UNCHANGED <<conversationSummaries, calls, inferences>>
       ELSE IF Len(getConversationHistory(c)) = 0
       THEN /\ conversationSummaries' = CacheSummary(conversationSummaries, c, NoHistorySummary)
            /\ last' = Step("getConversationSummary", c, "ok", NoHistorySummary)
            /\ UNCHANGED <<calls, inferences>>
       ELSE /\ calls' = [calls EXCEPT ![p] =
                    [pc |-> "summarize", c |-> c,
                     text |-> ConversationText(getConversationHistory(c))]]
            /\ inferences' = [inferences EXCEPT ![c] = @ + 1]
            /\ last' = Step("getConversationSummary", c, "await", "")
            /\ UNCHANGED conversationSummaries
    /\ UNCHANGED <<conversationHistories, pendingUserMessages, vectorstore, callLog>>

\* lines 141-144: the inference call resolved
SummaryResolved(p, content) ==
    /\ UNCHANGED <<reportVars, serverVars>>
    /\ calls[p].pc = "summarize"
    /\ conversationSummaries' =
            CacheSummary(conversationSummaries, calls[p].c, SummaryOf(content))
    /\ calls' = [calls EXCEPT ![p] = Idle]
    /\ last' = Step("getConversationSummary", calls[p].c, "ok", SummaryOf(content))
    /\ UNCHANGED <<conversationHistories, pendingUserMessages, vectorstore, callLog,
                   inferences, summaryCalls>>

\* lines 145-149: the inference call rejected
SummaryRejected(p) ==
    /\ UNCHANGED <<reportVars, serverVars>>
    /\ calls[p].pc = "summarize"
    /\ conversationSummaries' =
            CacheSummary(conversationSummaries, calls[p].c, ErrorSummary)
    /\ calls' = [calls EXCEPT ![p] = Idle]
    /\ last' = Step("getConversationSummary", calls[p].c, "ok", ErrorSummary)
    /\ UNCHANGED <<conversationHistories, pendingUserMessages, vectorstore, callLog,
                   inferences, summaryCalls>>

----------------------------------------------------------------------------
(* The model's answer to the extraction prompt, as a sequence of tokens:    *)
(* "{" and "}", a key (the token "rrsp" stands for "rrsp":), a number, a    *)
(* string literal, or a word of prose.  Separators are left out.            *)

Groups == <<"assets", "liabilities", "goals">>
FieldsOf(g) ==
    CASE g = "assets" -> <<"rrsp", "tfsa", "investments", "realEstate">>
      [] g = "liabilities" -> <<"mortgage", "creditCard", "loans">>
      [] g = "goals" -> <<"retirement", "education", "emergency">>
Range(seq) == {seq[i] : i \in 1..Len(seq)}
AllFields == UNION {Range(FieldsOf(g)) : g \in Range(Groups)}
KeyTokens == Range(Groups) \cup AllFields
NumberTokens == {"0", "5", "-5"}
NumberOf(tok) == CASE tok = "0" -> 0 [] tok = "5" -> 5 [] tok = "-5" -> 0 - 5
StringToken == "'5'"
ProseToken == "w"

\* JS values
Num(n) == [t |-> "num", n |-> n]
Str(tok) == [t |-> "str", s |-> tok]
Obj(f) == [t |-> "obj", f |-> f]

\* the tokens of a full snapshot object whose field f has the value token vals[f]
RECURSIVE MemberTokens(_, _)
MemberTokens(fields, vals) ==
    IF fields = <<>> THEN <<>>
    ELSE <<Head(fields), vals[Head(fields)]>> \o MemberTokens(Tail(fields), vals)
GroupTokens(g, vals) == <<g, "{">> \o MemberTokens(FieldsOf(g), vals) \o <<"}">>
SnapshotTokens(vals) ==
    <<"{">> \o GroupTokens("assets", vals) \o GroupTokens("liabilities", vals)
            \o GroupTokens("goals", vals) \o <<"}">>
AllZero == [f \in AllFields |-> "0"]

\* answers the model can give
ResponseTexts ==
    { <<>>,                                                   \* empty content
      <<ProseToken, ProseToken>>,                             \* prose, no braces
      <<"{", "assets">>,                                      \* cut off, no closing brace
      <<"{", "}">>,                                           \* {}
      <<"{", ProseToken, "}">>,                               \* braces around prose
      <<"{", "assets", "{", "tfsa", "5", "}", "}">>,          \* part of the schema
      SnapshotTokens(AllZero),
      SnapshotTokens([AllZero EXCEPT !["tfsa"] = "5"]),
      SnapshotTokens([AllZero EXCEPT !["rrsp"] = "-5"]),      \* a negative amount
      SnapshotTokens([AllZero EXCEPT !["rrsp"] = StringToken]), \* a string amount
      <<ProseToken>> \o SnapshotTokens([AllZero EXCEPT !["tfsa"] = "5"]) \o <<ProseToken>>,
      SnapshotTokens(AllZero) \o <<ProseToken, "}">>,         \* a brace in trailing prose
      <<"{", "}", ProseToken, "{", "}">> }                    \* two objects

\* what openai.chat.completions.create settles with
RejectedCompletion == [rejected |-> TRUE, has |-> FALSE, content |-> <<>>]
ResolvedCompletions ==
    {[rejected |-> FALSE, has |-> FALSE, content |-> <<>>]} \cup
    {[rejected |-> FALSE, has |-> TRUE, content |-> t] : t \in ResponseTexts}

----------------------------------------------------------------------------
(* MemoryManager.generateFinancialDataFromConversation *)

\* line 215: completion.choices[0]?.message?.content || '{}'
ResponseText(completion) ==
    IF completion.has /\ completion.content # <<>> THEN completion.content
    ELSE <<"{", "}">>

\* line 218: responseText.match(/\{[\s\S]*\}/): from the first "{" to the
\* last "}" after it (the star is greedy)
Match(text) ==
    LET opens == {i \in 1..Len(text) : text[i] = "{"}
        closes == {j \in 1..Len(text) : text[j] = "}"}
        first == CHOOSE i \in opens : \A k \in opens : i <= k
        final == CHOOSE j \in closes : \A k \in closes : k <= j
    IN  IF opens # {} /\ closes # {} /\ first < final
        THEN [found |-> TRUE, span |-> SubSeq(text, first, final)]
        ELSE [found |-> FALSE, span |-> <<>>]

\* line 220: JSON.parse, by recursive descent over the tokens
ParseFail == [ok |-> FALSE, val |-> Obj(EmptyMap), next |-> 0]
RECURSIVE ParseValue(_, _), ParseMembers(_, _, _)
ParseValue(t, i) ==
    IF i > Len(t) THEN ParseFail
    ELSE IF t[i] = "{" THEN ParseMembers(t, i + 1, EmptyMap)
    ELSE IF t[i] \in NumberTokens
         THEN [ok |-> TRUE, val |-> Num(NumberOf(t[i])), next |-> i + 1]
    ELSE IF t[i] = StringToken
         THEN [ok |-> TRUE, val |-> Str(t[i]), next |-> i + 1]
    ELSE ParseFail
ParseMembers(t, i, acc) ==
    IF i > Len(t) THEN ParseFail
    ELSE IF t[i] = "}" THEN [ok |-> TRUE, val |-> Obj(acc), next |-> i + 1]
    ELSE IF t[i] \in KeyTokens
         THEN LET r == ParseValue(t, i + 1)
              IN  IF r.ok THEN ParseMembers(t, r.next, Put(acc, t[i], r.val))
                  ELSE ParseFail
    ELSE ParseFail
JSONparse(t) ==
    LET r == ParseValue(t, 1)
    IN  IF r.ok /\ r.next = Len(t) + 1 THEN [ok |-> TRUE, val |-> r.val]
        ELSE [ok |-> FALSE, val |-> Obj(EmptyMap)]

\* lines 233-252
getDefaultFinancialData ==
    Obj([assets |-> Obj([rrsp |-> Num(0), tfsa |-> Num(0),
                         investments |-> Num(0), realEstate |-> Num(0)]),
         liabilities |-> Obj([mortgage |-> Num(0), creditCard |-> Num(0),
                              loans |-> Num(0)]),
         goals |-> Obj([retirement |-> Num(0), education |-> Num(0),
                        emergency |-> Num(0)])])

\* variant: line 157 without its test
HistoryIsEmpty_Never(history) == FALSE

\* line 157
HistoryIsEmpty(history) == Len(history) = 0

\* variant: the catch block logs and rethrows, as generateReport's does
Caught_Rethrow == [outcome |-> "error", data |-> getDefaultFinancialData]

\* lines 227-230: what the catch block makes of a throw in the try block
Caught == [outcome |-> "ok", data |-> getDefaultFinancialData]

\* lines 215-230: from the settled inference call to the return
ExtractResult(completion) ==
    IF completion.rejected THEN Caught
    ELSE LET m == Match(ResponseText(completion))
         IN  IF m.found
             THEN LET parsed == JSONparse(m.span)
                  IN  IF parsed.ok THEN [outcome |-> "ok", data |-> parsed.val]
                      ELSE Caught
             ELSE [outcome |-> "ok", data |-> getDefaultFinancialData]

\* ExtractResult, evaluated once for every completion
Completions == ResolvedCompletions \cup {RejectedCompletion}
ExtractResults == [completion \in Completions |-> ExtractResult(completion)]

NoCompletion == [rejected |-> FALSE, has |-> FALSE, content |-> <<>>]
Extracted(called, completion, data) ==
    [called |-> called, completion |-> completion, data |-> data]

\* lines 152-169: up to the await of the inference call
GenerateFinancialData(p, c, clientName) ==
    /\ calls[p] = Idle
    /\ IF HistoryIsEmpty(getConversationHistory(c))
       THEN /\ calls' = calls
            /\ last' = Step("generateFinancialData", c, "ok",
                            Extracted(FALSE, NoCompletion, getDefaultFinancialData))
       ELSE /\ calls' = [calls EXCEPT ![p] =
                    [pc |-> "extract", c |-> c, caller |-> "route",
                     clientName |-> clientName,
                     text |-> ConversationText(getConversationHistory(c))]]
            /\ last' = Step("generateFinancialData", c, "await", <<>>)
    /\ UNCHANGED <<conversationHistories, conversationSummaries, pendingUserMessages,
                   vectorstore, callLog, inferences, summaryCalls, reports, now, serverVars>>

----------------------------------------------------------------------------
(* ReportService.generateReport *)

NarrativeContents == {"<undefined>", "", "r1"}
ClientNames == {"Ann"}
UnableReport == "Unable to generate report"

\* line 133
ReportContentOf(content) == IF Truthy(content) THEN content ELSE UnableReport

\* variant: the template without the client's name
getDefaultReportContent_NoName(clientName) == <<"# Financial Report for", "">>

\* lines 140-181: the fixed template, filled with the client's name
getDefaultReportContent(clientName) == <<"# Financial Report for", clientName>>

\* lines 52-63 and 88-95: the history is read again, and the narrative
\* inference call is awaited; extraction tells how the extractor's inference
\* call settled, and extracted is the transcript the extractor read
Narrating(c, clientName, financialData, extraction, extracted) ==
    [pc |-> "narrate", c |-> c, clientName |-> clientName,
     financialData |-> financialData, extraction |-> extraction,
     extracted |-> extracted,
     text |-> ConversationText(getConversationHistory(c))]

\* lines 37-49: generateReport calls the extractor first
GenerateReport(p, c, clientName) ==
    /\ calls[p] = Idle
    /\ IF HistoryIsEmpty(getConversationHistory(c))
       THEN calls' = [calls EXCEPT ![p] =
                    Narrating(c, clientName, getDefaultFinancialData, "skipped",
                              ConversationText(getConversationHistory(c)))]
       ELSE calls' = [calls EXCEPT ![p] =
                    [pc |-> "extract", c |-> c, caller |-> "report",
                     clientName |-> clientName,
                     text |-> ConversationText(getConversationHistory(c))]]
    /\ last' = Step("generateReport", c, "await", <<>>)
    /\ UNCHANGED <<conversationHistories, conversationSummaries, pendingUserMessages,
                   vectorstore, callLog, inferences, summaryCalls, reports, now, serverVars>>

\* memoryManager.ts lines 215-230, then for a report reportService.ts lines 46-63
ExtractSettled(p, completion) ==
    /\ calls[p].pc = "extract"
    /\ LET r == ExtractResults[completion]
           c == calls[p].c
       IN  IF calls[p].caller = "route"
           THEN /\ calls' = [calls EXCEPT ![p] = Idle]
                /\ last' = Step("generateFinancialData", c, r.outcome,
                                Extracted(TRUE, completion, r.data))
           ELSE IF r.outcome = "error"
           THEN /\ calls' = [calls EXCEPT ![p] = Idle]
                /\ last' = Step("generateReport", c, "error", <<>>)
           ELSE /\ calls' = [calls EXCEPT ![p] =
                        Narrating(c, calls[p].clientName, r.data,
                                  IF completion.rejected THEN "rejected" ELSE "resolved",
                                  calls[p].text)]
                /\ last' = Step("generateReport", c, "await", <<>>)
    /\ UNCHANGED <<conversationHistories, conversationSummaries, pendingUserMessages,
                   vectorstore, callLog, inferences, summaryCalls, reports, now, serverVars>>

ExtractResolved(p, completion) == ExtractSettled(p, completion)

ExtractRejected(p) == ExtractSettled(p, RejectedCompletion)

\* line 66: `report_${conversationId}_${Date.now()}`
ReportId(c, time) == <<"report", c, time>>

\* lines 65-81; narrative tells how the narrative inference call settled
StoreReport(p, reportContent, narrative) ==
    LET reportId == ReportId(calls[p].c, now)
        reportData == [id |-> reportId, clientName |-> calls[p].clientName,
                       conversationId |-> calls[p].c, content |-> reportContent,
                       financialData |-> calls[p].financialData,
                       createdAt |-> now, updatedAt |-> now]
    IN  /\ reports' = Put(reports, reportId, reportData)
        /\ calls' = [calls EXCEPT ![p] = Idle]
        /\ last' = Step("generateReport", calls[p].c, "ok",
                        [id |-> reportId, extraction |-> calls[p].extraction,
                         narrative |-> narrative])
        /\ UNCHANGED <<conversationHistories, conversationSummaries, pendingUserMessages,
                       vectorstore, callLog, inferences, summaryCalls, now, serverVars>>

\* line 133, then lines 65-81
NarrativeResolved(p, content) ==
    /\ calls[p].pc = "narrate"
    /\ StoreReport(p, ReportContentOf(content), "resolved")

\* variant: generateReportContent lets the failure through
NarrativeCaught_Rethrow(clientName) == [outcome |-> "error", content |-> <<>>]

\* lines 134-137: what generateReportContent's catch block makes of a failed
\* inference call
NarrativeCaught(clientName) ==
    [outcome |-> "ok", content |-> getDefaultReportContent(clientName)]

\* lines 134-137, then lines 65-81; an exception is logged and thrown again
\* at lines 82-85
NarrativeRejected(p) ==
    /\ calls[p].pc = "narrate"
    /\ LET r == NarrativeCaught(calls[p].clientName)
       IN  IF r.outcome = "error"
           THEN /\ calls' = [calls EXCEPT ![p] = Idle]
                /\ last' = Step("generateReport", calls[p].c, "error", <<>>)
                /\ UNCHANGED <<conversationHistories, conversationSummaries,
                               pendingUserMessages, vectorstore, callLog, inferences,
                               summaryCalls, reports, now, serverVars>>
           ELSE StoreReport(p, r.content, "rejected")

\* line 184: reports.get(reportId) || null
Null == [null |-> TRUE]
getReport(rs, reportId) == IF Has(rs, reportId) THEN rs[reportId] ELSE Null

\* line 188: the values of the Map; each carries its id, which indexes it here
getAllReports(rs) == [reportId \in DOMAIN rs |-> rs[reportId]]

\* variant: the whole collection is dropped
deleteReport_Clear(rs, reportId) ==
    [deleted |-> Has(rs, reportId), reports |-> EmptyMap]

\* line 192: Map.delete tells whether the key was there
deleteReport(rs, reportId) ==
    [deleted |-> Has(rs, reportId), reports |-> Delete(rs, reportId)]

\* the ids a request can name
ReportIds == {ReportId(c, time) : c \in ConvIds, time \in 0..MaxNow}

\* routes/reports.ts, GET /:reportId
GetReport(reportId) ==
    /\ last' = Step("getReport", reportId[2],
                    IF getReport(reports, reportId) = Null THEN "404" ELSE "ok",
                    [id |-> reportId, report |-> getReport(reports, reportId)])
    /\ UNCHANGED <<conversationHistories, conversationSummaries, pendingUserMessages,
                   vectorstore, calls, callLog, inferences, summaryCalls, reports, now, serverVars>>

\* routes/reports.ts, GET /
GetAllReports ==
    /\ last' = Step("getAllReports", "c1", "ok", getAllReports(reports))
    /\ UNCHANGED <<conversationHistories, conversationSummaries, pendingUserMessages,
                   vectorstore, calls, callLog, inferences, summaryCalls, reports, now, serverVars>>

\* routes/reports.ts, DELETE /:reportId
DeleteReport(reportId) ==
    LET r == deleteReport(reports, reportId)
    IN  /\ reports' = r.reports
        /\ last' = Step("deleteReport", reportId[2],
                        IF r.deleted THEN "ok" ELSE "404",
                        [id |-> reportId, deleted |-> r.deleted])
        /\ UNCHANGED <<conversationHistories, conversationSummaries, pendingUserMessages,
                       vectorstore, calls, callLog, inferences, summaryCalls, now, serverVars>>

\* the clock moves
Tick ==
    /\ now' = now + 1
    /\ UNCHANGED serverVars
    /\ UNCHANGED <<conversationHistories, conversationSummaries, pendingUserMessages,
                   vectorstore, calls, last, callLog, inferences, summaryCalls, reports>>

----------------------------------------------------------------------------

(* MemoryManager.searchConversations and POST /api/chat/search *)

\* a field of a request body: absent, a string, or a number
Undef == [t |-> "undefined"]
Falsy(v) == v.t = "undefined" \/ (v.t = "str" /\ v.s = "") \/ (v.t = "num" /\ v.n = 0)
IsString(v) == v.t = "str"


\* the documents of the index, in the order they were written
RECURSIVE IndexedDocuments(_)
IndexedDocuments(store) ==
    IF store = <<>> THEN <<>>
    ELSE IndexedDocuments(SubSeq(store, 1, Len(store) - 1)) \o store[Len(store)].docs

\* the subsequences of a sequence
RECURSIVE SubSequences(_)
SubSequences(seq) ==
    IF seq = <<>> THEN {<<>>}
    ELSE LET rest == SubSequences(SubSeq(seq, 1, Len(seq) - 1))
         IN  rest \cup {Append(s, seq[Len(seq)]) : s \in rest}

\* lines 94-96: what vectorstore.similaritySearch(query, limit, filter) can
\* resolve with: at most limit indexed documents that pass the filter; a
\* filter on an absent conversationId may let every document pass
SimilaritySearchResults(store, limit, conversationId) ==
    {s \in SubSequences(IndexedDocuments(store)) :
        /\ Len(s) <= limit
        /\ \A i \in 1..Len(s) :
              conversationId = Undefined \/ s[i].conversationId = conversationId}

\* lines 98-102
SearchResult(doc) ==
    [content |-> doc.pageContent,
     metadata |-> [conversationId |-> doc.conversationId, role |-> doc.role]]
MapSearchResults(searchResults) ==
    [i \in 1..Len(searchResults) |-> SearchResult(searchResults[i])]

\* variant: the failure leaves searchConversations
SearchCaught_Rethrow == [outcome |-> "error", results |-> <<>>]

\* lines 103-106: what the catch block makes of a failed search
SearchCaught == [outcome |-> "ok", results |-> <<>>]

\* chat.ts lines 76-84 and memoryManager.ts lines 92-96: up to the await of
\* the index search
PostSearch(p, query, conversationId, limit) ==
    /\ calls[p] = Idle
    /\ IF Falsy(query) \/ ~IsString(query)
       THEN /\ calls' = calls
            /\ last' = Step("POST /api/chat/search", conversationId, "400", <<>>)
       ELSE /\ calls' = [calls EXCEPT ![p] =
                    [pc |-> "search", c |-> conversationId, limit |-> limit]]
            /\ last' = Step("POST /api/chat/search", conversationId, "await", <<>>)
    /\ UNCHANGED <<conversationHistories, conversationSummaries, pendingUserMessages,
                   vectorstore, callLog, inferences, summaryCalls, reports, now, serverVars>>

\* chat.ts lines 84-91: the answer to a search request
SearchResponse(p, r, index) ==
    /\ calls' = [calls EXCEPT ![p] = Idle]
    /\ last' = Step("POST /api/chat/search", calls[p].c,
                    IF r.outcome = "ok" THEN "200" ELSE "500",
                    [index |-> index, results |-> r.results,
                     totalFound |-> Len(r.results)])
    /\ UNCHANGED <<conversationHistories, conversationSummaries, pendingUserMessages,
                   vectorstore, callLog, inferences, summaryCalls, reports, now, serverVars>>

\* memoryManager.ts lines 98-102: the search resolved
SearchResolved(p) ==
    /\ calls[p].pc = "search"
    /\ \E searchResults \in
             SimilaritySearchResults(vectorstore, calls[p].limit, calls[p].c) :
          SearchResponse(p, [outcome |-> "ok",
                             results |-> MapSearchResults(searchResults)], "resolved")

\* memoryManager.ts lines 103-106: the search rejected
SearchRejected(p) ==
    /\ calls[p].pc = "search"
    /\ SearchResponse(p, SearchCaught, "rejected")

----------------------------------------------------------------------------

(* POST /api/chat and POST /api/reports/generate *)


\* chat.ts line 25: conversationId || conversation_id
ActualConversationId(conversationId, conversation_id) ==
    IF Falsy(conversationId) THEN conversation_id ELSE conversationId

\* chat.ts line 14: message?.substring(0, 100) is evaluated for the log
\* entry before anything is validated; ?. guards against an absent message
\* only, and a number has no substring method, so the call throws a TypeError
LogThrows(message) == message.t # "undefined" /\ ~IsString(message)

\* chat.ts lines 20-28
ChatInputValid(message, conversationId, conversation_id) ==
    LET actualConversationId == ActualConversationId(conversationId, conversation_id)
    IN  /\ ~Falsy(message) /\ IsString(message)
        /\ ~Falsy(actualConversationId) /\ IsString(actualConversationId)

\* a message of a request, as addMessage stores it
TextOf(v) == IF v.t = "str" THEN v.s ELSE "5"

\* the body of a chat request
ChatBody(message, conversationId, conversation_id) ==
    [stage |-> "request", message |-> message, conversationId |-> conversationId,
     conversation_id |-> conversation_id]

\* chat.ts lines 9-48: the log entry, validation, addMessage of the user
\* message, up to the await of the reply
PostChat(p, message, conversationId, conversation_id) ==
    /\ calls[p] = Idle
    /\ IF LogThrows(message)
       THEN /\ last' = Step("POST /api/chat", "-", "TypeError",
                            ChatBody(message, conversationId, conversation_id))
            /\ UNCHANGED <<conversationHistories, pendingUserMessages, callLog, calls>>
       ELSE IF ~ChatInputValid(message, conversationId, conversation_id)
       THEN /\ last' = Step("POST /api/chat", "-", "400",
                            ChatBody(message, conversationId, conversation_id))
            /\ UNCHANGED <<conversationHistories, pendingUserMessages, callLog, calls>>
       ELSE LET c == ActualConversationId(conversationId, conversation_id).s
                text == TextOf(message)
            IN  /\ conversationHistories' =
                        PushMessage(conversationHistories, c, "user", text)
                /\ callLog' = [callLog EXCEPT ![c] =
                                  Append(@, ConversationMessage("user", text))]
                /\ pendingUserMessages' =
                        StorePending(pendingUserMessages, c, "user", text)
                /\ calls' = [calls EXCEPT ![p] =
                        [pc |-> "reply", c |-> c, op |-> "POST /api/chat",
                         message |-> text]]
                /\ last' = Step("POST /api/chat", c, "await",
                                ChatBody(message, conversationId, conversation_id))
    /\ UNCHANGED <<conversationSummaries, vectorstore, inferences, summaryCalls,
                   reports, now, serverVars>>

\* socket handler lines 11-16
SocketInputValid(message, conversationId) == ~Falsy(message) /\ ~Falsy(conversationId)

\* socket handler lines 9-33: validation, addMessage of the user message, up
\* to the await of the reply
SocketMessage(p, message, conversationId) ==
    /\ calls[p] = Idle
    /\ IF ~SocketInputValid(message, conversationId)
       THEN /\ last' = Step("socket message", "-", "error",
                            [stage |-> "request", message |-> message,
                             conversationId |-> conversationId])
            /\ UNCHANGED <<conversationHistories, pendingUserMessages, callLog, calls>>
       ELSE LET c == TextOf(conversationId)
                text == TextOf(message)
            IN  /\ conversationHistories' =
                        PushMessage(conversationHistories, c, "user", text)
                /\ callLog' = [callLog EXCEPT ![c] =
                                  Append(@, ConversationMessage("user", text))]
                /\ pendingUserMessages' =
                        StorePending(pendingUserMessages, c, "user", text)
                /\ calls' = [calls EXCEPT ![p] =
                        [pc |-> "reply", c |-> c, op |-> "socket message",
                         message |-> text]]
                /\ last' = Step("socket message", c, "await",
                                [stage |-> "request", message |-> message,
                                 conversationId |-> conversationId])
    /\ UNCHANGED <<conversationSummaries, vectorstore, inferences, summaryCalls,
                   reports, now, serverVars>>

\* chat.ts lines 61-72, socket handler lines 39-47: the answer to a chat
\* request; a socket request is answered by a 'response' or an 'error' event
ChatResponse(p, status) ==
    /\ calls' = [calls EXCEPT ![p] = Idle]
    /\ last' = Step(calls[p].op, calls[p].c,
                    IF calls[p].op = "POST /api/chat" THEN status
                    ELSE IF status = "200" THEN "response" ELSE "error",
                    [stage |-> "response"])

\* chat.ts lines 48-59: the reply arrived; addMessage of the assistant message
ChatReplyResolved(p, response) ==
    /\ calls[p].pc = "reply"
    /\ LET c == calls[p].c
       IN  /\ conversationHistories' =
                   PushMessage(conversationHistories, c, "assistant", response)
           /\ callLog' = [callLog EXCEPT ![c] =
                             Append(@, ConversationMessage("assistant", response))]
           /\ IF ShouldIndex(pendingUserMessages, c, "assistant")
              THEN /\ calls' = [calls EXCEPT ![p] =
                          [pc |-> "chatIndex", c |-> c, op |-> calls[p].op,
                           message |-> calls[p].message,
                           docs |-> Documents(c, Get(pendingUserMessages, c), response),
                           at |-> Len(conversationHistories'[c])]]
                   /\ last' = Step(calls[p].op, c, "await", [stage |-> "index"])
              ELSE ChatResponse(p, "200")
    /\ UNCHANGED <<conversationSummaries, pendingUserMessages, vectorstore, inferences,
                   summaryCalls, reports, now, serverVars>>

\* chat.ts lines 48, 69-72: the reply inference failed
ChatReplyRejected(p) ==
    /\ calls[p].pc = "reply"
    /\ ChatResponse(p, "500")
    /\ UNCHANGED <<conversationHistories, conversationSummaries, pendingUserMessages,
                   vectorstore, callLog, inferences, summaryCalls, reports, now, serverVars>>

\* memoryManager.ts lines 62-86, chat.ts lines 59-68: the pair was indexed
ChatIndexResolved(p) ==
    /\ calls[p].pc = "chatIndex"
    /\ vectorstore' = Append(vectorstore, [docs |-> calls[p].docs, at |-> calls[p].at])
    /\ pendingUserMessages' = ClearPending(pendingUserMessages, calls[p].c)
    /\ ChatResponse(p, "200")
    /\ UNCHANGED <<conversationHistories, conversationSummaries, callLog, inferences,
                   summaryCalls, reports, now, serverVars>>

\* memoryManager.ts line 62, chat.ts lines 69-72: the index write failed
ChatIndexRejected(p) ==
    /\ calls[p].pc = "chatIndex"
    /\ ChatResponse(p, "500")
    /\ UNCHANGED <<conversationHistories, conversationSummaries, pendingUserMessages,
                   vectorstore, callLog, inferences, summaryCalls, reports, now, serverVars>>

\* routes/reports.ts lines 67-69
GenerateInputValid(conversationId, clientName) ==
    ~Falsy(conversationId) /\ ~Falsy(clientName)

\* routes/reports.ts lines 64-71: validation, then generateReport
PostGenerateReport(p, conversationId, clientName) ==
    IF ~GenerateInputValid(conversationId, clientName)
    THEN /\ calls[p] = Idle
         /\ last' = Step("POST /api/reports/generate", "-", "400",
                         [conversationId |-> conversationId, clientName |-> clientName])
         /\ UNCHANGED <<conversationHistories, conversationSummaries,
                        pendingUserMessages, vectorstore, calls, callLog, inferences,
                        summaryCalls, reports, now, serverVars>>
    ELSE GenerateReport(p, TextOf(conversationId), TextOf(clientName))

----------------------------------------------------------------------------

(* ReportService.generateChartsHTML *)

\* a width is a rational number, kept as a fraction in lowest terms
RECURSIVE GCD(_, _)
GCD(a, b) == IF b = 0 THEN a ELSE GCD(b, a % b)
Fraction(n, d) == [n |-> n \div GCD(n, d), d |-> d \div GCD(n, d)]
Divide(a, b) == Fraction(a, b)
Times(x, k) == Fraction(x.n * k, x.d)
\* variant: the width is not clipped
MathMin_NoClip(x, k) == x

\* Math.min of a width and a whole number
MathMin(x, k) == IF x.n >= k * x.d THEN Fraction(k, 1) ELSE x

\* lines 211-281: the constant each amount is divided by
Ceiling(field) ==
    CASE field \in {"rrsp", "tfsa", "investments", "realEstate"} -> 100000
      [] field = "mortgage" -> 500000
      [] field = "creditCard" -> 50000
      [] field = "loans" -> 100000
      [] field = "retirement" -> 1000000
      [] field = "education" -> 100000
      [] field = "emergency" -> 50000

\* lines 211-281: Math.min((value / ceiling) * 100, 100)
BarWidth(value, ceiling) == MathMin(Times(Divide(value, ceiling), 100), 100)

\* lines 213-283: Number.toLocaleString groups the digits in threes; the
\* groups, most significant first
RECURSIVE toLocaleString(_)
toLocaleString(n) ==
    IF n < 1000 THEN <<n>> ELSE Append(toLocaleString(n \div 1000), n % 1000)

GroupOf(field) == CHOOSE g \in Range(Groups) : field \in Range(FieldsOf(g))
AmountOf(financialData, field) == financialData.f[GroupOf(field)].f[field].n

ErrorChartsHTML == [error |-> "Error generating charts"]

\* lines 195-393: the width and the text of every bar; reading a field of a
\* missing group throws, and the catch block returns the error element
generateChartsHTML(financialData) ==
    IF \E g \in Range(Groups) : ~Has(financialData.f, g)
    THEN ErrorChartsHTML
    ELSE [field \in AllFields |->
            [width |-> BarWidth(AmountOf(financialData, field), Ceiling(field)),
             value |-> toLocaleString(AmountOf(financialData, field))]]

\* a snapshot whose field f holds the amount vals[f]
SnapshotOf(vals) ==
    Obj([g \in Range(Groups) |-> Obj([f \in Range(FieldsOf(g)) |-> Num(vals[f])])])

\* amounts around every ceiling
Amounts ==
    {0, 1, 1500000} \cup
    UNION {{Ceiling(f) - 1, Ceiling(f), Ceiling(f) + 1, Ceiling(f) \div 4} : f \in AllFields}

\* one field holds any of the amounts, the other fields hold nothing or much
ChartInputs ==
    {SnapshotOf([f \in AllFields |-> IF f = field THEN amount ELSE other]) :
        field \in AllFields, amount \in Amounts, other \in {0, 1500000}}
    \cup {Obj(EmptyMap)}

GenerateChartsHTML(financialData) ==
    /\ last' = Step("generateChartsHTML", "-", "ok",
                    [financialData |-> financialData,
                     html |-> generateChartsHTML(financialData)])
    /\ UNCHANGED <<conversationHistories, conversationSummaries, pendingUserMessages,
                   vectorstore, calls, callLog, inferences, summaryCalls, reports, now, serverVars>>

----------------------------------------------------------------------------

(* middleware/rateLimiter.ts *)

\* lines 13-14
windowMs == 15 * 60 * 1000
maxRequests == 100

\* line 49: the period of the cleanup
cleanupMs == 5 * 60 * 1000

\* line 11: req.ip || 'unknown'
ClientIds == {"ip1", "unknown"}

\* variant: the limit is tested one request late
LimitReached_Late(clientData) == clientData.count > maxRequests

\* line 28
LimitReached(clientData) == clientData.count >= maxRequests

\* lines 10-39: the store after a request of clientId at time t, and whether
\* the request was passed on (next) or answered 429
rateLimiter(store, clientId, t) ==
    IF ~Has(store, clientId) \/ t > store[clientId].resetTime
    THEN [store |-> Put(store, clientId, [count |-> 1, resetTime |-> t + windowMs]),
          status |-> "next"]
    ELSE IF LimitReached(store[clientId])
    THEN [store |-> store, status |-> "429"]
    ELSE [store |-> [store EXCEPT ![clientId].count = @ + 1], status |-> "next"]

\* lines 42-49: the entries whose window is over are deleted
Cleanup(store, t) ==
    [clientId \in {x \in DOMAIN store : ~(t > store[x].resetTime)} |-> store[clientId]]

\* the requests passed on for a client, counted from the first one passed on
\* and again from the first one passed on more than windowMs after that
Admit(adm, clientId, t) ==
    IF ~Has(adm, clientId) \/ t > adm[clientId].since + windowMs
    THEN Put(adm, clientId, [since |-> t, n |-> 1])
    ELSE [adm EXCEPT ![clientId].n = @ + 1]

\* lines 10-39: a request arrives
RateLimiter(clientId) ==
    LET r == rateLimiter(rateLimitStore, clientId, now)
    IN  /\ rateLimitStore' = r.store
        /\ admitted' = IF r.status = "next" THEN Admit(admitted, clientId, now)
                       ELSE admitted
        /\ last' = Step("rateLimiter", clientId, r.status, <<>>)
        /\ UNCHANGED <<conversationHistories, conversationSummaries, pendingUserMessages,
                       vectorstore, calls, callLog, inferences, summaryCalls, reports,
                       now, authVars>>

\* lines 42-49: the interval timer fires
RateLimitCleanup ==
    /\ rateLimitStore' = Cleanup(rateLimitStore, now)
    /\ last' = Step("cleanup", "-", "ok", <<>>)
    /\ UNCHANGED <<conversationHistories, conversationSummaries, pendingUserMessages,
                   vectorstore, calls, callLog, inferences, summaryCalls, reports,
                   now, admitted, authVars>>

\* time passes
Elapse(ms) ==
    /\ now' = now + ms
    /\ UNCHANGED serverVars
    /\ UNCHANGED <<conversationHistories, conversationSummaries, pendingUserMessages,
                   vectorstore, calls, last, callLog, inferences, summaryCalls, reports>>

----------------------------------------------------------------------------

(* AuthService and routes/auth.ts *)

\* auth.ts line 30: 15 minutes
passcodeMs == 15 * 60 * 1000

\* AuthService.createClientSession: DateTime.now().plus({ hours: 24 })
sessionMs == 24 * 60 * 60 * 1000


\* String.prototype.trim and toLowerCase on the addresses used here
trim(s) == IF s = " Ann " THEN "Ann" ELSE s
toLowerCase(s) == IF s = "Ann" THEN "ann" ELSE IF s = " Ann " THEN " ann " ELSE s

\* Date.prototype.toISOString and new Date(string): the string carries the
\* milliseconds, and parsing it gives them back
toISOString(ms) == [iso |-> ms]
NewDate(iso) == iso.iso

AuthUnchanged ==
    UNCHANGED <<conversationHistories, conversationSummaries, pendingUserMessages,
                vectorstore, callLog, inferences, summaryCalls, reports, now,
                rateLimitStore, admitted>>

\* the answer of an auth route
AuthResponse(p, route, status, value) ==
    /\ calls' = [calls EXCEPT ![p] = Idle]
    /\ last' = Step(route, "-", status, value)

\* auth.ts lines 10-20: validation, then isClientAuthorized is awaited
PostRequestAccess(p, email) ==
    /\ calls[p] = Idle
    /\ IF Falsy(email) \/ ~IsString(email)
       THEN /\ last' = Step("request-access", "-", "400", <<>>)
            /\ UNCHANGED <<calls, authRequests>>
       ELSE /\ calls' = [calls EXCEPT ![p] =
                   [pc |-> "authorize", normalizedEmail |-> toLowerCase(trim(email.s))]]
            /\ last' = Step("request-access", "-", "await", <<>>)
            /\ authRequests' = [authRequests EXCEPT !["request-access"] = @ + 1]
    /\ UNCHANGED <<authorization_tokens, client_sessions, granted, uuids>>
    /\ AuthUnchanged

\* AuthService.isClientAuthorized, then auth.ts lines 21-42: the passcode is
\* drawn, expiresAt is computed and storeAuthToken is awaited; ok tells
\* whether the query succeeded
AuthorizeSettled(p, ok, passcode) ==
    /\ calls[p].pc = "authorize"
    /\ IF ok /\ toLowerCase(calls[p].normalizedEmail) \in {"ann"}  \* the active clients
       THEN /\ calls' = [calls EXCEPT ![p] =
                   [pc |-> "storeToken", normalizedEmail |-> calls[p].normalizedEmail,
                    passcode |-> passcode, issued |-> now,
                    expiresAt |-> now + passcodeMs]]
            /\ last' = Step("request-access", "-", "await", <<>>)
       ELSE AuthResponse(p, "request-access", "403", <<>>)
    /\ UNCHANGED authVars
    /\ AuthUnchanged

\* AuthService.storeAuthToken lines 463-481, then auth.ts lines 44-49; the
\* column used is false in a new row, and issued records when the passcode
\* was drawn
StoreTokenSettled(p, ok) ==
    /\ calls[p].pc = "storeToken"
    /\ IF ok
       THEN /\ authorization_tokens' = Append(authorization_tokens,
                   [email |-> toLowerCase(calls[p].normalizedEmail),
                    token |-> calls[p].passcode,
                    expires_at |-> toISOString(calls[p].expiresAt),
                    used |-> FALSE, issued |-> calls[p].issued])
            /\ calls' = [calls EXCEPT ![p] = [pc |-> "sendEmail"]]
            /\ last' = Step("request-access", "-", "await", <<>>)
       ELSE /\ AuthResponse(p, "request-access", "500", <<>>)
            /\ UNCHANGED authorization_tokens
    /\ UNCHANGED <<client_sessions, granted, uuids, authRequests>>
    /\ AuthUnchanged

\* emailService.sendPasscodeEmail, then auth.ts lines 50-58
SendEmailSettled(p, emailSent) ==
    /\ calls[p].pc = "sendEmail"
    /\ AuthResponse(p, "request-access", IF emailSent THEN "200" ELSE "500", <<>>)
    /\ UNCHANGED authVars
    /\ AuthUnchanged

\* variant: a passcode never expires
Expired_Never(t, expiresAt) == FALSE

\* verifyAuthToken line 512, verifyClientSession line 581: now > expiresAt
Expired(t, expiresAt) == t > expiresAt

\* auth.ts lines 62-73, verifyAuthToken lines 485-498: validation, the clock
\* is read, and the select is awaited
PostVerifyToken(p, email, token) ==
    /\ calls[p] = Idle
    /\ IF Falsy(email) \/ Falsy(token)
       THEN /\ last' = Step("verify-token", "-", "400", <<>>)
            /\ UNCHANGED <<calls, authRequests>>
       ELSE /\ calls' = [calls EXCEPT ![p] =
                   [pc |-> "verifySelect",
                    normalizedEmail |-> toLowerCase(trim(email.s)),
                    token |-> trim(token.s), now |-> now]]
            /\ last' = Step("verify-token", "-", "await", <<>>)
            /\ authRequests' = [authRequests EXCEPT !["verify-token"] = @ + 1]
    /\ UNCHANGED <<authorization_tokens, client_sessions, granted, uuids>>
    /\ AuthUnchanged

\* verifyAuthToken lines 500-520, auth.ts lines 74-79: the select has
\* answered; without ORDER BY any returned row can be data[0], here row id
VerifySelectSettled(p, ok, id) ==
    /\ calls[p].pc = "verifySelect"
    /\ LET data == {row \in 1..Len(authorization_tokens) :
                       /\ authorization_tokens[row].email
                             = toLowerCase(calls[p].normalizedEmail)
                       /\ authorization_tokens[row].token = calls[p].token
                       /\ authorization_tokens[row].used = FALSE}
       IN  /\ IF ok /\ data # {} THEN id \in data ELSE id = 0
           /\ IF ~ok \/ data = {}
              THEN AuthResponse(p, "verify-token", "401",
                                [cause |-> IF ok THEN "no row" ELSE "error"])
              ELSE IF Expired(calls[p].now, NewDate(authorization_tokens[id].expires_at))
              THEN AuthResponse(p, "verify-token", "401", [cause |-> "expired"])
              ELSE /\ calls' = [calls EXCEPT ![p] =
                          [pc |-> "verifyUpdate", id |-> id,
                           normalizedEmail |-> calls[p].normalizedEmail,
                           token |-> calls[p].token, now |-> calls[p].now]]
                   /\ last' = Step("verify-token", "-", "await", <<>>)
    /\ UNCHANGED authVars
    /\ AuthUnchanged

\* verifyAuthToken lines 517-522, auth.ts line 82, createClientSession lines
\* 529-544: the update has answered, with or without an error, which is not
\* looked at; verifyAuthToken returns true and the insert of the session is
\* awaited
VerifyUpdateSettled(p, ok) ==
    /\ calls[p].pc = "verifyUpdate"
    /\ authorization_tokens' =
          IF ok THEN [authorization_tokens EXCEPT ![calls[p].id].used = TRUE]
          ELSE authorization_tokens
    /\ granted' = Put(granted, calls[p].id,
                      IF Has(granted, calls[p].id) THEN granted[calls[p].id] + 1 ELSE 1)
    /\ uuids' = uuids + 1
    /\ calls' = [calls EXCEPT ![p] =
            [pc |-> "createSession", id |-> calls[p].id,
             email |-> toLowerCase(calls[p].normalizedEmail),
             sessionToken |-> uuids + 1, created |-> now,
             expiresAt |-> now + sessionMs]]
    /\ last' = Step("verifyAuthToken", "-", "true",
                    [id |-> calls[p].id, now |-> calls[p].now])
    /\ UNCHANGED <<client_sessions, authRequests>>
    /\ AuthUnchanged

\* verifyAuthToken lines 523-526: the update threw; false is returned
VerifyUpdateRejected(p) ==
    /\ calls[p].pc = "verifyUpdate"
    /\ AuthResponse(p, "verify-token", "401", [cause |-> "thrown"])
    /\ UNCHANGED authVars
    /\ AuthUnchanged

\* createClientSession lines 538-555, auth.ts lines 83-92
CreateSessionSettled(p, ok) ==
    /\ calls[p].pc = "createSession"
    /\ IF ok
       THEN /\ client_sessions' = Put(client_sessions, calls[p].sessionToken,
                   [email |-> calls[p].email,
                    session_token |-> calls[p].sessionToken,
                    expires_at |-> toISOString(calls[p].expiresAt),
                    created |-> calls[p].created, token_id |-> calls[p].id])
            /\ AuthResponse(p, "verify-token", "200",
                            [sessionToken |-> calls[p].sessionToken])
       ELSE /\ AuthResponse(p, "verify-token", "500", <<>>)
            /\ UNCHANGED client_sessions
    /\ UNCHANGED <<authorization_tokens, granted, uuids, authRequests>>
    /\ AuthUnchanged

\* the Authorization headers of the session requests: none, another scheme,
\* or 'Bearer ' and a session token (0 is a token no session has)
HeaderInputs == {<<>>, <<"Basic ", 1>>} \cup {<<"Bearer ", t>> : t \in (0..1)}

\* auth.ts lines 98 and 118: authHeader && authHeader.startsWith('Bearer ')
IsBearer(authHeader) == authHeader # <<>> /\ authHeader[1] = "Bearer "

\* auth.ts lines 102 and 119: authHeader.substring(7)
substring7(authHeader) == authHeader[2]

\* auth.ts lines 96-103, verifyClientSession lines 558-567: the header is
\* tested and the select is awaited
GetValidateSession(p, authHeader) ==
    /\ calls[p] = Idle
    /\ IF ~IsBearer(authHeader)
       THEN /\ last' = Step("validate-session", "-", "401", <<>>)
            /\ UNCHANGED <<calls, authRequests>>
       ELSE /\ calls' = [calls EXCEPT ![p] =
                   [pc |-> "sessionSelect", sessionToken |-> substring7(authHeader)]]
            /\ last' = Step("validate-session", substring7(authHeader), "await", <<>>)
            /\ authRequests' = [authRequests EXCEPT !["validate-session"] = @ + 1]
    /\ UNCHANGED <<authorization_tokens, client_sessions, granted, uuids>>
    /\ AuthUnchanged

\* verifyClientSession lines 569-589, auth.ts lines 105-107: the select has
\* answered; the clock is read now
SessionSelectSettled(p, ok) ==
    /\ calls[p].pc = "sessionSelect"
    /\ LET sessionToken == calls[p].sessionToken
       IN  IF ~ok \/ ~Has(client_sessions, sessionToken)
           THEN /\ calls' = [calls EXCEPT ![p] = Idle]
                /\ last' = Step("validate-session", sessionToken, "401",
                                [cause |-> IF ok THEN "no row" ELSE "error"])
           ELSE IF Expired(now, NewDate(client_sessions[sessionToken].expires_at))
           THEN /\ calls' = [calls EXCEPT ![p] = Idle]
                /\ last' = Step("validate-session", sessionToken, "401",
                                [cause |-> "expired"])
           ELSE /\ calls' = [calls EXCEPT ![p] =
                       [pc |-> "sessionTouch", sessionToken |-> sessionToken,
                        email |-> client_sessions[sessionToken].email, now |-> now]]
                /\ last' = Step("validate-session", sessionToken, "await", <<>>)
    /\ UNCHANGED authVars
    /\ AuthUnchanged

\* verifyClientSession lines 586-591, auth.ts lines 109-112: the update of
\* last_accessed has answered; the email is returned
SessionTouchSettled(p) ==
    /\ calls[p].pc = "sessionTouch"
    /\ calls' = [calls EXCEPT ![p] = Idle]
    /\ last' = Step("validate-session", calls[p].sessionToken, "200",
                    [email |-> calls[p].email, now |-> calls[p].now])
    /\ UNCHANGED authVars
    /\ AuthUnchanged

\* verifyClientSession lines 592-595: the update threw; null is returned
SessionTouchRejected(p) ==
    /\ calls[p].pc = "sessionTouch"
    /\ calls' = [calls EXCEPT ![p] = Idle]
    /\ last' = Step("validate-session", calls[p].sessionToken, "401",
                    [cause |-> "thrown"])
    /\ UNCHANGED authVars
    /\ AuthUnchanged

\* auth.ts lines 116-121, logoutClient lines 598-607: with a Bearer header
\* the delete is awaited, without one success is answered at once
PostLogout(p, authHeader) ==
    /\ calls[p] = Idle
    /\ IF ~IsBearer(authHeader)
       THEN /\ last' = Step("logout", "-", "200", [deleted |-> FALSE])
            /\ UNCHANGED <<calls, authRequests>>
       ELSE /\ calls' = [calls EXCEPT ![p] =
                   [pc |-> "logout", sessionToken |-> substring7(authHeader)]]
            /\ last' = Step("logout", substring7(authHeader), "await", <<>>)
            /\ authRequests' = [authRequests EXCEPT !["logout"] = @ + 1]
    /\ UNCHANGED <<authorization_tokens, client_sessions, granted, uuids>>
    /\ AuthUnchanged

\* logoutClient lines 609-618, auth.ts lines 120-126: the delete has
\* answered; what logoutClient returns is not looked at
LogoutSettled(p, ok) ==
    /\ calls[p].pc = "logout"
    /\ client_sessions' =
          IF ok /\ Has(client_sessions, calls[p].sessionToken)
          THEN Delete(client_sessions, calls[p].sessionToken)
          ELSE client_sessions
    /\ calls' = [calls EXCEPT ![p] = Idle]
    /\ last' = Step("logout", calls[p].sessionToken, "200", [deleted |-> ok])
    /\ UNCHANGED <<authorization_tokens, granted, uuids, authRequests>>
    /\ AuthUnchanged

----------------------------------------------------------------------------

Init ==
    /\ conversationHistories = EmptyMap
    /\ conversationSummaries = EmptyMap
    /\ pendingUserMessages = EmptyMap
    /\ vectorstore = <<>>
    /\ calls = [p \in Procs |-> Idle]
    /\ last = Step("init", "c1", "ok", <<>>)
    /\ callLog = [c \in ConvIds |-> <<>>]
    /\ inferences = [c \in ConvIds |-> 0]
    /\ summaryCalls = [c \in ConvIds |-> 0]
    /\ reports = EmptyMap
    /\ now = 0
    /\ rateLimitStore = EmptyMap
    /\ admitted = EmptyMap
    /\ authorization_tokens = <<>>
    /\ client_sessions = EmptyMap
    /\ granted = EmptyMap
    /\ uuids = 0
    /\ authRequests = [route \in {"request-access", "verify-token", "validate-session", "logout"} |-> 0]

Next ==
    \/ /\ SlotFree
       /\ TotalMsgs < MaxMsgs
       /\ \E c \in ConvIds, role \in Roles :
             \E message \in TextsOf(role) : AddMessage(FreeSlot, c, role, message)
    \/ \E p \in Procs : AddDocumentsResolved(p)
    \/ \E p \in Procs : AddDocumentsRejected(p)
    \/ \E c \in ConvIds : GetConversationHistory(c)

Spec == Init /\ [][Next]_vars

NextSummary ==
    \/ /\ SlotFree
       /\ TotalMsgs < MaxSummaryMsgs
       /\ \E c \in ConvIds, role \in Roles :
             \E message \in TextsOf(role) : AddMessage(FreeSlot, c, role, message)
    \/ \E p \in Procs : AddDocumentsResolved(p)
    \/ \E p \in Procs : AddDocumentsRejected(p)
    \/ /\ SlotFree
       /\ TotalSummaryCalls < MaxSummaryCalls
       /\ \E c \in ConvIds : GetConversationSummary(FreeSlot, c)
    \/ \E p \in Procs, content \in {"<undefined>", "", "s1", "s2"} : SummaryResolved(p, content)
    \/ \E p \in Procs : SummaryRejected(p)

SpecSummary == Init /\ [][NextSummary]_vars

NextExtract ==
    \/ /\ SlotFree
       /\ TotalMsgs < MaxExtractMsgs
       /\ \E c \in ConvIds, message \in UserTexts :
             AddMessage(FreeSlot, c, "user", message)
    \/ /\ SlotFree
       /\ \E c \in ConvIds, clientName \in ClientNames :
             GenerateFinancialData(FreeSlot, c, clientName)
    \/ \E p \in Procs, completion \in ResolvedCompletions : ExtractResolved(p, completion)
    \/ \E p \in Procs : ExtractRejected(p)

SpecExtract == Init /\ [][NextExtract]_vars

\* the generateReport calls in flight
ReportsInFlight ==
    {p \in Procs : \/ calls[p].pc = "narrate"
                   \/ calls[p].pc = "extract" /\ calls[p].caller = "report"}

NextReport ==
    \/ /\ SlotFree
       /\ TotalMsgs < MaxReportMsgs
       /\ \E c \in ConvIds, message \in UserTexts :
             AddMessage(FreeSlot, c, "user", message)
    \/ /\ SlotFree
       /\ Cardinality(DOMAIN reports) + Cardinality(ReportsInFlight) < MaxReports
       /\ \E c \in ConvIds, clientName \in ClientNames :
             GenerateReport(FreeSlot, c, clientName)
    \/ \E p \in Procs, completion \in ResolvedCompletions : ExtractResolved(p, completion)
    \/ \E p \in Procs : ExtractRejected(p)
    \/ \E p \in Procs, content \in NarrativeContents : NarrativeResolved(p, content)
    \/ \E p \in Procs : NarrativeRejected(p)
    \/ now < MaxNow /\ Tick

SpecReport == Init /\ [][NextReport]_vars

\* the report collection: one conversation, a model that answers the
\* extraction prompt with a snapshot
StoreCompletions ==
    { [rejected |-> FALSE, has |-> TRUE,
       content |-> SnapshotTokens([AllZero EXCEPT !["tfsa"] = "5"])] }

NextStore ==
    \/ /\ SlotFree
       /\ TotalMsgs < MaxStoreMsgs
       /\ AddMessage(FreeSlot, "c1", "user", "a")
    \/ /\ SlotFree
       /\ Cardinality(DOMAIN reports) + Cardinality(ReportsInFlight) < MaxStoreReports
       /\ \E clientName \in ClientNames : GenerateReport(FreeSlot, "c1", clientName)
    \/ \E p \in Procs, completion \in StoreCompletions : ExtractResolved(p, completion)
    \/ \E p \in Procs : ExtractRejected(p)
    \/ \E p \in Procs, content \in NarrativeContents : NarrativeResolved(p, content)
    \/ \E p \in Procs : NarrativeRejected(p)
    \/ \E reportId \in ReportIds : GetReport(reportId)
    \/ GetAllReports
    \/ \E reportId \in ReportIds : DeleteReport(reportId)
    \/ now < MaxNow /\ Tick

SpecStore == Init /\ [][NextStore]_vars

NextSearch ==
    \/ /\ SlotFree
       /\ TotalMsgs < MaxSearchMsgs
       /\ \E c \in ConvIds, role \in Roles :
             \E message \in TextsOf(role) : AddMessage(FreeSlot, c, role, message)
    \/ \E p \in Procs : AddDocumentsResolved(p)
    \/ \E p \in Procs : AddDocumentsRejected(p)
    \/ /\ SlotFree
       /\ \E query \in {Undef, Str(""), Str("q"), Num(5)}, conversationId \in (ConvIds \cup {Undefined}), limit \in {1, 5} :
             PostSearch(FreeSlot, query, conversationId, limit)
    \/ \E p \in Procs : SearchResolved(p)
    \/ \E p \in Procs : SearchRejected(p)

SpecSearch == Init /\ [][NextSearch]_vars

\* the chat requests accepted so far, and the reports stored or in the making
RequestsAccepted ==
    Cardinality({i \in 1..Len(callLog["c1"]) : callLog["c1"][i].role = "user"})
    + Cardinality({i \in 1..Len(callLog["c2"]) : callLog["c2"][i].role = "user"})
    + Cardinality(DOMAIN reports) + Cardinality(ReportsInFlight)

NextRoutes ==
    \/ /\ SlotFree
       /\ \E message \in {Undef, Str(""), Str("a"), Num(5)}, conversationId \in {Undef, Str(""), Str("c1"), Num(5)},
             conversation_id \in {Undef, Str("c1")} :
             /\ ChatInputValid(message, conversationId, conversation_id) =>
                   RequestsAccepted < MaxRouteRequests
             /\ PostChat(FreeSlot, message, conversationId, conversation_id)
    \/ \E p \in Procs, response \in AssistantTexts : ChatReplyResolved(p, response)
    \/ \E p \in Procs : ChatReplyRejected(p)
    \/ \E p \in Procs : ChatIndexResolved(p)
    \/ \E p \in Procs : ChatIndexRejected(p)
    \/ /\ SlotFree
       /\ \E conversationId \in {Undef, Str(""), Str("c2")},
             clientName \in {Undef, Str(""), Str("Ann")} :
             /\ GenerateInputValid(conversationId, clientName) =>
                   RequestsAccepted < MaxRouteRequests
             /\ PostGenerateReport(FreeSlot, conversationId, clientName)
    \/ \E p \in Procs, content \in NarrativeContents : NarrativeResolved(p, content)
    \/ \E p \in Procs : NarrativeRejected(p)

SpecRoutes == Init /\ [][NextRoutes]_vars

NextCharts == \E financialData \in ChartInputs : GenerateChartsHTML(financialData)

SpecCharts == Init /\ [][NextCharts]_vars

\* the services side by side: addMessage on every conversation, and, one at
\* a time, every other operation of the memory manager and of the report
\* service on c1
FrameReportIds == {ReportId("c1", 0), ReportId("c2", 0)}
OneAtATime == \A q \in Procs : calls[q].pc \in {"idle", "addDocuments"}

NextFrame ==
    \/ /\ SlotFree
       /\ TotalMsgs < MaxFrameMsgs
       /\ \E c \in ConvIds : \/ AddMessage(FreeSlot, c, "user", "a")
                             \/ AddMessage(FreeSlot, c, "assistant", "x")
    \/ \E p \in Procs : AddDocumentsResolved(p)
    \/ \E p \in Procs : AddDocumentsRejected(p)
    \/ /\ SlotFree /\ OneAtATime
       /\ TotalSummaryCalls < MaxFrameCalls
       /\ GetConversationSummary(FreeSlot, "c1")
    \/ \E p \in Procs : SummaryResolved(p, "s1")
    \/ \E p \in Procs : SummaryRejected(p)
    \/ /\ SlotFree /\ OneAtATime
       /\ \E clientName \in ClientNames : GenerateFinancialData(FreeSlot, "c1", clientName)
    \/ /\ SlotFree /\ OneAtATime
       /\ Cardinality(DOMAIN reports) < MaxFrameCalls
       /\ \E clientName \in ClientNames : GenerateReport(FreeSlot, "c1", clientName)
    \/ \E p \in Procs, completion \in StoreCompletions : ExtractResolved(p, completion)
    \/ \E p \in Procs : ExtractRejected(p)
    \/ \E p \in Procs : NarrativeResolved(p, "r1")
    \/ \E p \in Procs : NarrativeRejected(p)
    \/ /\ SlotFree /\ OneAtATime
       /\ PostSearch(FreeSlot, Str("q"), "c1", 5)
    \/ \E p \in Procs : SearchResolved(p)
    \/ \E p \in Procs : SearchRejected(p)
    \/ \E reportId \in FrameReportIds : GetReport(reportId)
    \/ GetAllReports
    \/ \E reportId \in FrameReportIds : DeleteReport(reportId)

SpecFrame == Init /\ [][NextFrame]_vars

\* chat requests over HTTP and over the socket, on one conversation
ChatRequestsAccepted ==
    Cardinality({i \in 1..Len(callLog["c1"]) : callLog["c1"][i].role = "user"})

NextChat ==
    \/ /\ SlotFree
       /\ ChatRequestsAccepted < MaxChatRequests
       /\ \E message \in {Str("a"), Str("b")} : PostChat(FreeSlot, message, Str("c1"), Undef)
    \/ /\ SlotFree
       /\ \E message \in {Undef, Str("a"), Str("b")}, conversationId \in {Undef, Str("c1")} :
             /\ SocketInputValid(message, conversationId) =>
                   ChatRequestsAccepted < MaxChatRequests
             /\ SocketMessage(FreeSlot, message, conversationId)
    \/ \E p \in Procs : ChatReplyResolved(p, "x")
    \/ \E p \in Procs : ChatReplyRejected(p)
    \/ \E p \in Procs : ChatIndexResolved(p)
    \/ \E p \in Procs : ChatIndexRejected(p)

SpecChat == Init /\ [][NextChat]_vars

\* requests of two clients, the cleanup timer, and time passing in steps of
\* the cleanup period and of a millisecond
NextLimiter ==
    \/ RateLimiter("ip1")
    \/ /\ Has(rateLimitStore, "unknown") => rateLimitStore["unknown"].count < MaxOtherRequests
       /\ RateLimiter("unknown")
    \/ RateLimitCleanup
    \/ now < MaxElapses * cleanupMs /\ Elapse(cleanupMs)
    \/ now > 0 /\ now % cleanupMs = 0 /\ Elapse(1)

SpecLimiter == Init /\ [][NextLimiter]_vars

\* the auth routes, the database answering with or without an error, and
\* time passing; passcodes are asked for one at a time and verified
\* concurrently
NextAuth ==
    \/ /\ \A q \in Procs : calls[q] = Idle
       /\ \E email \in {Undef, Str(" Ann "), Str("bob")} :
             /\ ~Falsy(email) => authRequests["request-access"] < MaxPasscodes
             /\ PostRequestAccess(FreeSlot, email)
    \/ \E p \in Procs, ok \in BOOLEAN, passcode \in {"123456"} :
          AuthorizeSettled(p, ok, passcode)
    \/ \E p \in Procs, ok \in BOOLEAN : StoreTokenSettled(p, ok)
    \/ \E p \in Procs, emailSent \in BOOLEAN : SendEmailSettled(p, emailSent)
    \/ /\ SlotFree
       /\ \A q \in Procs : calls[q].pc \notin {"authorize", "storeToken", "sendEmail"}
       /\ \E email \in {Undef, Str(" Ann ")},
             token \in {Undef, Str("123456"), Str("654321")} :
             /\ (~Falsy(email) /\ ~Falsy(token)) =>
                   authRequests["verify-token"] < MaxVerifications
             /\ PostVerifyToken(FreeSlot, email, token)
    \/ \E p \in Procs, ok \in BOOLEAN, id \in 0..MaxPasscodes :
          VerifySelectSettled(p, ok, id)
    \/ \E p \in Procs, ok \in BOOLEAN : VerifyUpdateSettled(p, ok)
    \/ \E p \in Procs : VerifyUpdateRejected(p)
    \/ \E p \in Procs, ok \in BOOLEAN : CreateSessionSettled(p, ok)
    \/ now < MaxPasscodeElapses * passcodeMs /\ now % passcodeMs = 0 /\ Elapse(passcodeMs)
    \/ now > 0 /\ now % passcodeMs = 0 /\ Elapse(1)

SpecAuth == Init /\ [][NextAuth]_vars

\* sessions: a client is given a passcode and verifies it, the database
\* answering without an error; then the session routes, the database
\* answering with or without an error, and time passing
NextSession ==
    \/ /\ \A q \in Procs : calls[q] = Idle
       /\ authRequests["request-access"] < MaxPasscodes
       /\ PostRequestAccess(FreeSlot, Str(" Ann "))
    \/ \E p \in Procs : AuthorizeSettled(p, TRUE, "123456")
    \/ \E p \in Procs : StoreTokenSettled(p, TRUE)
    \/ \E p \in Procs : SendEmailSettled(p, TRUE)
    \/ /\ \A q \in Procs : calls[q] = Idle
       /\ authRequests["verify-token"] < MaxSessions
       /\ PostVerifyToken(FreeSlot, Str(" Ann "), Str("123456"))
    \/ \E p \in Procs, id \in 0..MaxPasscodes : VerifySelectSettled(p, TRUE, id)
    \/ \E p \in Procs : VerifyUpdateSettled(p, TRUE)
    \/ \E p \in Procs : CreateSessionSettled(p, TRUE)
    \/ /\ SlotFree
       /\ \E authHeader \in HeaderInputs :
             /\ IsBearer(authHeader) =>
                   authRequests["validate-session"] + authRequests["logout"]
                       < MaxSessionRequests
             /\ GetValidateSession(FreeSlot, authHeader)
    \/ \E p \in Procs, ok \in BOOLEAN : SessionSelectSettled(p, ok)
    \/ \E p \in Procs : SessionTouchSettled(p)
    \/ \E p \in Procs : SessionTouchRejected(p)
    \/ /\ SlotFree
       /\ \E authHeader \in HeaderInputs :
             /\ IsBearer(authHeader) =>
                   authRequests["validate-session"] + authRequests["logout"]
                       < MaxSessionRequests
             /\ PostLogout(FreeSlot, authHeader)
    \/ \E p \in Procs, ok \in BOOLEAN : LogoutSettled(p, ok)
    \/ now < MaxSessionElapses * sessionMs /\ now % sessionMs = 0 /\ Elapse(sessionMs)
    \/ now > 0 /\ now % sessionMs = 0 /\ Elapse(1)

SpecSession == Init /\ [][NextSession]_vars

----------------------------------------------------------------------------
(* Properties *)

LastOf(s) == s[Len(s)]

\* this step is the start of an addMessage(c, role, _) call
AddMessageStarts(c, role) ==
    /\ Len(callLog'[c]) = Len(callLog[c]) + 1
    /\ LastOf(callLog'[c]).role = role

\* this step is the end of slot p's suspended addMessage(c, assistant, _) call
AddMessageEnds(p, c) ==
    /\ calls[p].pc = "addDocuments"
    /\ calls[p].c = c
    /\ calls'[p] = Idle

\* the batches of the index written for the message at position i of conversation c
BatchesAt(store, c, i) ==
    {k \in 1..Len(store) : store[k].docs[1].conversationId = c /\ store[k].at = i}

\* C1: getConversationHistory returns exactly the messages of the addMessage
\* calls made for that conversation, in call order, whatever the roles and
\* whatever was added to other conversations; for a conversation without
\* messages it returns the empty sequence, and it never raises.
C1_HistoryIsCallLog ==
    /\ \A c \in ConvIds : getConversationHistory(c) = callLog[c]
    /\ last.op = "getConversationHistory" =>
          last.outcome = "ok" /\ last.value = callLog[last.c]

C1_Witness ==
    /\ last.op = "getConversationHistory"
    /\ last.c = "c1"
    /\ Len(last.value) = 2
    /\ last.value[1].role = "assistant"
    /\ last.value[2].role = "user"
    /\ Len(callLog["c2"]) = 1

\* C2: when an addMessage(c, assistant, A) call starts right after an
\* addMessage(c, user, U) call, it hands the index one batch holding U and A,
\* and when that call returns the index holds exactly one batch for it and c
\* has no pending entry.
C2_PairIndexedOnce ==
    [][\A c \in ConvIds :
        /\ (last = Step("addMessage", c, "ok", "user") /\ AddMessageStarts(c, "assistant")) =>
              /\ vectorstore' = vectorstore
              /\ \E p \in Procs :
                    /\ calls[p] = Idle
                    /\ calls'[p].pc = "addDocuments"
                    /\ calls'[p].docs = Documents(c, LastOf(callLog[c]).content,
                                                     LastOf(callLog'[c]).content)
                    /\ \A q \in Procs \ {p} : calls'[q] = calls[q]
        /\ \A p \in Procs :
              (AddMessageEnds(p, c) /\ last'.outcome = "ok") =>
                 /\ Cardinality(BatchesAt(vectorstore', c, calls[p].at)) = 1
                 /\ LastOf(vectorstore').docs = calls[p].docs
                 /\ Len(vectorstore') = Len(vectorstore) + 1
                 /\ ~Has(pendingUserMessages', c)
      ]_vars

C2_Witness ==
    /\ last = Step("addMessage", "c1", "ok", "assistant")
    /\ callLog["c1"] = <<ConversationMessage("user", "a"), ConversationMessage("assistant", "x")>>
    /\ Len(vectorstore) = 1
    /\ vectorstore[1].docs = Documents("c1", "a", "x")
    /\ ~Has(pendingUserMessages, "c1")

\* the position of the last user message of h before position i, or 0
RECURSIVE LastUserBefore(_, _)
LastUserBefore(h, i) ==
    IF i <= 1 THEN 0
    ELSE IF h[i - 1].role = "user" THEN i - 1
    ELSE LastUserBefore(h, i - 1)

\* C3: every batch of the index pairs an assistant message with the most
\* recent user message added before it: after U1, U2, A it is U2 that is
\* written with A, and U1 is written with nothing.
C3_LatestUserMessageIsPaired ==
    \A k \in 1..Len(vectorstore) :
        LET b == vectorstore[k]
            h == getConversationHistory(b.docs[1].conversationId)
            u == LastUserBefore(h, b.at)
        IN  /\ b.at <= Len(h)
            /\ h[b.at].role = "assistant"
            /\ h[b.at].content = b.docs[2].pageContent
            /\ u > 0
            /\ h[u].content = b.docs[1].pageContent

C3_Witness ==
    /\ callLog["c1"] = <<ConversationMessage("user", "a"), ConversationMessage("user", "b"),
                          ConversationMessage("assistant", "x")>>
    /\ Len(vectorstore) = 1
    /\ vectorstore[1].docs = Documents("c1", "b", "x")

\* C4: an addMessage(c, assistant, A) call made while c has no pending entry
\* appends A to the history of c, writes nothing to the index, starts no
\* write, and returns without error.
C4_AssistantWithoutPending ==
    [][\A c \in ConvIds :
        (AddMessageStarts(c, "assistant") /\ ~Has(pendingUserMessages, c)) =>
            /\ conversationHistories'[c] =
                    Append(getConversationHistory(c), LastOf(callLog'[c]))
            /\ vectorstore' = vectorstore
            /\ calls' = calls
            /\ last' = Step("addMessage", c, "ok", "assistant")
      ]_vars

C4_Witness ==
    /\ last = Step("addMessage", "c1", "ok", "assistant")
    /\ getConversationHistory("c1") = <<ConversationMessage("assistant", "x")>>
    /\ vectorstore = <<>>
    /\ \A p \in Procs : calls[p] = Idle

\* every batch of the index is one user document and one assistant document
\* of the same conversation, both messages of that conversation
PairedExchangesOnly ==
    \A k \in 1..Len(vectorstore) :
        LET d == vectorstore[k].docs
            h == getConversationHistory(d[1].conversationId)
        IN  /\ Len(d) = 2
            /\ d[1].role = "user"
            /\ d[2].role = "assistant"
            /\ d[1].conversationId = d[2].conversationId
            /\ \E i \in 1..Len(h) : h[i] = ConversationMessage("user", d[1].pageContent)
            /\ \E i \in 1..Len(h) : h[i] = ConversationMessage("assistant", d[2].pageContent)

\* C5: the index holds paired exchanges only, and an addMessage call with role
\* user neither writes to the index nor starts a write.
C5_OnlyPairsAreIndexed ==
    /\ []PairedExchangesOnly
    /\ [][\A c \in ConvIds :
            AddMessageStarts(c, "user") => vectorstore' = vectorstore /\ calls' = calls
         ]_vars

C5_Witness ==
    /\ Len(vectorstore) = 1
    /\ vectorstore[1].docs[1].conversationId = "c1"
    /\ last = Step("addMessage", "c1", "ok", "user")
    /\ Len(callLog["c1"]) = 3

\* C6: after every finished addMessage call with role assistant, whether its
\* index write succeeded or failed, the conversation has no pending entry.
C6_PendingDeletedAfterAssistant ==
    (last.op = "addMessage" /\ last.outcome \in {"ok", "error"} /\ last.value = "assistant")
        => ~Has(pendingUserMessages, last.c)

\* this step is the start of a getConversationSummary(c) call
SummaryStarts(c) == summaryCalls'[c] = summaryCalls[c] + 1

\* C10: a getConversationSummary(c) call issues at most one summarization
\* inference, and a call that starts right after a getConversationSummary(c)
\* call has returned issues none: it returns the text the first call returned
\* and leaves the cache as it is.
C10_SecondCallIsCacheHit ==
    [][\A c \in ConvIds :
        /\ inferences'[c] <= inferences[c] + 1
        /\ inferences'[c] # inferences[c] => SummaryStarts(c)
        /\ (/\ SummaryStarts(c)
            /\ last.op = "getConversationSummary"
            /\ last.c = c
            /\ last.outcome = "ok") =>
                /\ inferences' = inferences
                /\ calls' = calls
                /\ last' = last
                /\ conversationSummaries' = conversationSummaries
      ]_vars

C10_Witness ==
    /\ summaryCalls["c1"] = 2
    /\ inferences["c1"] = 1
    /\ last = Step("getConversationSummary", "c1", "ok", "s1")
    /\ Get(conversationSummaries, "c1") = "s1"
    /\ \A p \in Procs : calls[p] = Idle

\* v has the fixed schema, every field a number >= 0
IsSnapshot(v) ==
    /\ v.t = "obj"
    /\ DOMAIN v.f = {"assets", "liabilities", "goals"}
    /\ \A g \in DOMAIN v.f :
          /\ v.f[g].t = "obj"
          /\ DOMAIN v.f[g].f = Range(FieldsOf(g))
          /\ \A f \in DOMAIN v.f[g].f :
                v.f[g].f[f].t = "num" /\ v.f[g].f[f].n >= 0

\* v is the snapshot whose ten fields are 0
IsZeroSnapshot(v) ==
    /\ IsSnapshot(v)
    /\ Cardinality(UNION {DOMAIN v.f[g].f : g \in DOMAIN v.f}) = 10
    /\ \A g \in DOMAIN v.f : \A f \in DOMAIN v.f[g].f : v.f[g].f[f].n = 0

\* this step is the start of a generateFinancialDataFromConversation(c, _)
\* call made by the financial-data route
FinancialDataStarts(c) ==
    /\ last'.op = "generateFinancialData"
    /\ last'.c = c
    /\ \A p \in Procs : calls[p].pc = "extract" => calls'[p] = calls[p]

\* C7: on a conversation without messages generateFinancialDataFromConversation
\* returns the snapshot whose ten fields are 0 and issues no inference call.
C7_EmptyConversationGivesZeroSnapshot ==
    [][\A c \in ConvIds :
        (FinancialDataStarts(c) /\ Len(getConversationHistory(c)) = 0) =>
            /\ last'.outcome = "ok"
            /\ IsZeroSnapshot(last'.value.data)
            /\ calls' = calls
      ]_vars

C7_Witness ==
    /\ last.op = "generateFinancialData"
    /\ last.c = "c1"
    /\ last.outcome = "ok"
    /\ IsZeroSnapshot(last.value.data)
    /\ Len(getConversationHistory("c1")) = 0
    /\ Len(getConversationHistory("c2")) = 1
    /\ \A p \in Procs : calls[p] = Idle

C9_SnapshotsHaveSchema ==
    /\ (last.op = "generateFinancialData" /\ last.outcome = "ok") =>
          IsSnapshot(last.value.data)
    /\ \A id \in DOMAIN reports : IsSnapshot(reports[id].financialData)

\* C11: over any number of getConversationSummary requests for one
\* conversation, requests that overlap while an inference call is in flight
\* included, the summarization inference is invoked at most once for that
\* conversation.
C11_SummaryInferredAtMostOnce ==
    \A c \in ConvIds : inferences[c] <= 1

\* C12: once a summary is cached for a conversation, no step removes or
\* replaces it, and every getConversationSummary call that returns afterwards
\* returns that text, whatever addMessage calls happen in between.
C12_CachedSummaryIsFinal ==
    [][\A c \in ConvIds :
        Has(conversationSummaries, c) =>
           /\ Has(conversationSummaries', c)
           /\ conversationSummaries'[c] = conversationSummaries[c]
           /\ (last'.op = "getConversationSummary" /\ last'.c = c) =>
                 last'.value = conversationSummaries[c]]_vars

\* C20: in every reachable state, whenever a conversation has a pending
\* entry, the entry is one text, the content of the most recent user message
\* in that conversation's history; entries exist for conversations only, one
\* for each at most.
C20_PendingIsLatestUserMessage ==
    /\ DOMAIN pendingUserMessages \subseteq ConvIds
    /\ \A c \in DOMAIN pendingUserMessages :
          LET h == getConversationHistory(c)
              u == LastUserBefore(h, Len(h) + 1)
          IN  /\ pendingUserMessages[c] \in UserTexts
              /\ u > 0
              /\ pendingUserMessages[c] = h[u].content

C20_Witness ==
    /\ callLog["c1"] = <<ConversationMessage("user", "a"),
                          ConversationMessage("assistant", "x"),
                          ConversationMessage("user", "b")>>
    /\ \E p \in Procs : calls[p].pc = "addDocuments"
    /\ Get(pendingUserMessages, "c1") = "b"

\* slot p's generateReport call returns in this step
ReportReturns(p) ==
    /\ calls[p].pc = "narrate"
    /\ calls'[p] = Idle
    /\ last'.op = "generateReport"
    /\ last'.outcome = "ok"

\* C13: every generateReport call that returns stores its report under an id
\* that no report of the collection has, and every report stored before is
\* still there, unchanged.
C13_ReportIdsAreFresh ==
    [][\A p \in Procs :
        ReportReturns(p) =>
           /\ ~Has(reports, last'.value.id)
           /\ Has(reports', last'.value.id)
           /\ \A reportId \in DOMAIN reports :
                 getReport(reports', reportId) = reports[reportId]]_vars

\* C14: deleteReport(id) on an id that is not in the collection returns false
\* and leaves the collection unchanged; on an id that is in the collection it
\* returns true and removes that report and no other, and getReport(id)
\* gives null afterwards.
C14_DeleteReportRemovesOne ==
    [][(last'.op = "deleteReport" /\ now' = now) =>
        LET reportId == last'.value.id
        IN  IF Has(reports, reportId)
            THEN /\ last'.value.deleted
                 /\ last'.outcome = "ok"
                 /\ DOMAIN reports' = DOMAIN reports \ {reportId}
                 /\ \A other \in DOMAIN reports' : reports'[other] = reports[other]
                 /\ getReport(reports', reportId) = Null
            ELSE /\ ~last'.value.deleted
                 /\ last'.outcome = "404"
                 /\ reports' = reports]_vars

C14_Witness ==
    /\ last.op = "deleteReport"
    /\ last.value.deleted
    /\ last.value.id = ReportId("c1", 0)
    /\ getReport(reports, ReportId("c1", 0)) = Null
    /\ DOMAIN reports = {ReportId("c1", 1)}

\* slot p's generateReport call ends in this step, and one of its inference
\* calls had failed
ReportEndsAfterFailure(p) ==
    /\ calls[p].pc = "narrate"
    /\ calls'[p] = Idle
    /\ last'.op = "generateReport"
    /\ last'.outcome = "ok" =>
          \/ last'.value.extraction = "rejected"
          \/ last'.value.narrative = "rejected"

\* C15 as stated: a generateReport call one of whose inference calls failed
\* raises the failure and stores no report.
C15_InferenceFailureIsRaised ==
    [][\A p \in Procs :
        ReportEndsAfterFailure(p) =>
           /\ last'.outcome = "error"
           /\ reports' = reports]_vars

\* C15, amended: no generateReport call ends with an error: when its
\* extraction inference fails it goes on to the narrative with the all-zero
\* snapshot, and when an inference call of it has failed it still returns
\* and stores its report.
C15_InferenceFailureIsAbsorbed ==
    /\ [](last.op = "generateReport" => last.outcome \in {"await", "ok"})
    /\ [][\A p \in Procs :
           /\ (calls[p].pc = "extract" /\ calls[p].caller = "report"
                   /\ calls'[p] # calls[p]) =>
                 /\ calls'[p].pc = "narrate"
                 /\ calls'[p].extraction = "rejected" =>
                       calls'[p].financialData = getDefaultFinancialData
           /\ ReportEndsAfterFailure(p) =>
                 /\ last'.outcome = "ok"
                 /\ Has(reports', last'.value.id)
                 /\ reports'[last'.value.id].conversationId = calls[p].c]_vars

C15_Witness ==
    /\ last.op = "generateReport"
    /\ last.outcome = "ok"
    /\ last.value.extraction = "rejected"
    /\ last.value.narrative = "rejected"
    /\ Has(reports, last.value.id)
    /\ reports[last.value.id].financialData = getDefaultFinancialData

\* C16: when the narrative inference call of a generateReport call fails,
\* the call still returns and stores a report whose content is the fixed
\* template filled with the client's name and whose financialData is the
\* snapshot the extractor gave that call.
C16_FailedNarrativeGivesTemplate ==
    [][\A p \in Procs :
        (calls[p].pc = "narrate" /\ calls'[p] = Idle
             /\ (last'.outcome = "ok" => last'.value.narrative = "rejected")) =>
           /\ last'.op = "generateReport"
           /\ last'.outcome = "ok"
           /\ Has(reports', last'.value.id)
           /\ LET report == reports'[last'.value.id]
              IN  /\ report.content = <<"# Financial Report for", calls[p].clientName>>
                  /\ report.financialData = calls[p].financialData
                  /\ report.clientName = calls[p].clientName
                  /\ report.conversationId = calls[p].c]_vars

C16_Witness ==
    /\ last.op = "generateReport"
    /\ last.outcome = "ok"
    /\ last.value.extraction = "resolved"
    /\ last.value.narrative = "rejected"
    /\ Has(reports, last.value.id)
    /\ reports[last.value.id].content = <<"# Financial Report for", "Ann">>
    /\ reports[last.value.id].financialData.f["assets"].f["tfsa"] = Num(5)

\* C17: searchConversations never raises: every search request that passed
\* validation is answered with success and totalFound equal to the number of
\* results it returns, and when the index search failed the results are the
\* empty list.
C17_SearchNeverRaises ==
    [][\A p \in Procs :
        (calls[p].pc = "search" /\ calls'[p] = Idle) =>
           /\ last'.op = "POST /api/chat/search"
           /\ last'.outcome = "200"
           /\ last'.value.totalFound = Len(last'.value.results)
           /\ last'.value.index = "rejected" => last'.value.results = <<>>]_vars

C17_Witness ==
    /\ last.op = "POST /api/chat/search"
    /\ last.c = "c1"
    /\ last.outcome = "200"
    /\ last.value.index = "rejected"
    /\ last.value.totalFound = 0
    /\ Len(vectorstore) = 1
    /\ vectorstore[1].docs[1].conversationId = "c1"

\* the stores, and the calls in flight
Stores ==
    <<conversationHistories, pendingUserMessages, vectorstore, conversationSummaries,
      reports, calls, inferences>>

\* C19: a POST /api/chat request whose message or conversation id is missing
\* or not a string is answered 400, and a POST /api/reports/generate request
\* rejected for a missing conversationId or clientName is answered 400; such
\* a request changes neither the histories, the pending entries, the index,
\* the summary cache nor the reports, and starts no inference call.
C19_RejectedRequestChangesNothing ==
    [][/\ (last'.op = "POST /api/chat" /\ last'.value.stage = "request") =>
             LET body == last'.value
                 id == IF Falsy(body.conversationId) THEN body.conversation_id
                       ELSE body.conversationId
             IN  (\/ Falsy(body.message) \/ ~IsString(body.message)
                  \/ Falsy(id) \/ ~IsString(id)) =>
                    /\ last'.outcome = "400"
                    /\ UNCHANGED Stores
       /\ last'.op = "POST /api/reports/generate" =>
             /\ Falsy(last'.value.conversationId) \/ Falsy(last'.value.clientName)
             /\ last'.outcome = "400"
             /\ UNCHANGED Stores
       /\ \A p \in Procs :
             (calls[p] = Idle /\ calls'[p].pc \in {"extract", "narrate"}) =>
                calls'[p].c # "" /\ calls'[p].clientName # ""]_vars

\* the number a sequence of digit groups stands for
RECURSIVE GroupsValue(_)
GroupsValue(groups) ==
    IF groups = <<>> THEN 0
    ELSE GroupsValue(SubSeq(groups, 1, Len(groups) - 1)) * 1000 + LastOf(groups)

\* the ceilings as the specification lists them
ListedCeiling(field) ==
    CASE field \in {"rrsp", "tfsa", "investments", "realEstate", "loans", "education"}
             -> 100000
      [] field = "mortgage" -> 500000
      [] field \in {"creditCard", "emergency"} -> 50000
      [] field = "retirement" -> 1000000

\* C18: for every field of a snapshot of non-negative integer amounts,
\* generateChartsHTML gives the bar the width min(value * 100 / ceiling, 100)
\* with the listed ceiling of the field: exactly 100 for a value at or above
\* the ceiling, never more than 100, and the text beside the bar is the
\* unclipped value.
C18_BarWidthIsClipped ==
    (last.op = "generateChartsHTML" /\ last.value.financialData # Obj(EmptyMap)) =>
        \A field \in AllFields :
            LET value == AmountOf(last.value.financialData, field)
                ceiling == ListedCeiling(field)
                bar == last.value.html[field]
            IN  /\ bar.width = IF value * 100 >= 100 * ceiling THEN Fraction(100, 1)
                               ELSE Fraction(value * 100, ceiling)
                /\ value >= ceiling => bar.width = [n |-> 100, d |-> 1]
                /\ bar.width.n <= 100 * bar.width.d
                /\ GroupsValue(bar.value) = value

C18_Witness ==
    /\ last.op = "generateChartsHTML"
    /\ last.value.financialData # Obj(EmptyMap)
    /\ AmountOf(last.value.financialData, "mortgage") = 500001
    /\ AmountOf(last.value.financialData, "rrsp") = 0
    /\ last.value.html["mortgage"].width = [n |-> 100, d |-> 1]
    /\ last.value.html["mortgage"].value = <<500, 1>>
    /\ last.value.html["rrsp"].width = [n |-> 0, d |-> 1]

HistoryIn(histories, c) == IF Has(histories, c) THEN histories[c] ELSE <<>>
IsPrefix(s, t) == Len(s) <= Len(t) /\ SubSeq(t, 1, Len(s)) = s

\* the operations that only read the conversations
ReadingOps ==
    {"getConversationSummary", "generateFinancialData", "generateReport",
     "POST /api/chat/search", "getReport", "getAllReports", "deleteReport"}

\* C21: messages are immutable and append-only: every step keeps each
\* history as a prefix of what it becomes; a step of getConversationSummary,
\* generateFinancialDataFromConversation, generateReport, searchConversations,
\* getReport, getAllReports or deleteReport leaves every history and every
\* pending entry unchanged; a step of addMessage for c leaves the histories
\* and pending entries of the other conversations unchanged.
C21_MessagesAreAppendOnly ==
    [][/\ \A c \in ConvIds :
             IsPrefix(HistoryIn(conversationHistories, c),
                      HistoryIn(conversationHistories', c))
       /\ last'.op \in ReadingOps =>
             UNCHANGED <<conversationHistories, pendingUserMessages>>
       /\ last'.op = "addMessage" =>
             \A c \in ConvIds \ {last'.c} :
                /\ HistoryIn(conversationHistories', c) =
                      HistoryIn(conversationHistories, c)
                /\ Get(pendingUserMessages', c) = Get(pendingUserMessages, c)]_vars

C21_Witness ==
    /\ last = Step("addMessage", "c2", "ok", "user")
    /\ Get(pendingUserMessages, "c1") = "a"
    /\ Len(HistoryIn(conversationHistories, "c1")) = 1
    /\ Has(conversationSummaries, "c1")
    /\ DOMAIN reports # {}

\* the position of the "}" that closes the "{" at position open, or 0
RECURSIVE MatchingClose(_, _, _)
MatchingClose(text, i, depth) ==
    IF i > Len(text) THEN 0
    ELSE IF text[i] = "{" THEN MatchingClose(text, i + 1, depth + 1)
    ELSE IF text[i] = "}"
         THEN IF depth = 1 THEN i ELSE MatchingClose(text, i + 1, depth - 1)
    ELSE MatchingClose(text, i + 1, depth)

\* the first balanced {...} span of a text, or the empty sequence
FirstBalancedSpan(text) ==
    LET opens == {i \in 1..Len(text) : text[i] = "{"}
        first == CHOOSE i \in opens : \A k \in opens : i <= k
    IN  IF opens = {} THEN <<>>
        ELSE IF MatchingClose(text, first + 1, 1) = 0 THEN <<>>
        ELSE SubSeq(text, first, MatchingClose(text, first + 1, 1))

\* C22: for every model output that contains a balanced brace span, the text
\* the extractor hands to the JSON decoder is the span from the first "{" to
\* its matching "}", also when more text containing "}" follows.
C22_FirstBalancedSpanIsDecoded ==
    (last.op = "generateFinancialData" /\ last.outcome = "ok" /\ last.value.called
         /\ ~last.value.completion.rejected) =>
        LET text == ResponseText(last.value.completion)
        IN  FirstBalancedSpan(text) # <<>> =>
               /\ Match(text).found
               /\ Match(text).span = FirstBalancedSpan(text)

\* C27: a pending user message is deleted only by the assistant-message call
\* that indexed it: when the index write of an addMessage(c, assistant, A1)
\* call completes after a later addMessage(c, user, U2) call has run, U2 is
\* still the pending entry of c.
C27_LaterUserMessageStaysPending ==
    [][\A p \in Procs : \A c \in ConvIds :
        (/\ AddMessageEnds(p, c)
         /\ vectorstore' # vectorstore
         /\ Len(conversationHistories[c]) > calls[p].at
         /\ LastOf(conversationHistories[c]).role = "user") =>
            /\ Has(pendingUserMessages', c)
            /\ Get(pendingUserMessages', c) = LastOf(conversationHistories[c]).content]_vars

\* this step is the answer of slot p's chat request, with the given outcomes
ChatAnswers(p, outcomes) ==
    /\ calls[p].pc \in {"reply", "chatIndex"}
    /\ calls'[p] = Idle
    /\ last'.outcome \in outcomes

\* the position in the history of the reply of the chat request that slot p
\* answers in this step
ReplyAt(p) ==
    IF calls[p].pc = "chatIndex" THEN calls[p].at
    ELSE Len(conversationHistories'[calls[p].c])

\* C28: every chat request (POST /api/chat or socket 'message') that completes
\* successfully has its reply written to the index exactly once, in a batch
\* that pairs the reply with that same request's user message, however many
\* requests on the conversation overlap.
C28_ReplyIndexedWithOwnMessage ==
    [][\A p \in Procs :
        ChatAnswers(p, {"200", "response"}) =>
            LET c == calls[p].c
                at == ReplyAt(p)
                batches == BatchesAt(vectorstore', c, at)
            IN  /\ Cardinality(batches) = 1
                /\ \A k \in batches :
                      vectorstore'[k].docs =
                          Documents(c, calls[p].message,
                                    conversationHistories'[c][at].content)]_vars

\* C29: when the reply inference of a chat request fails, the request answers
\* 500 (or emits a socket error) and the failure appends nothing and indexes
\* nothing; the request's user message is then the pending entry of the
\* conversation.
C29_FailedReplyKeepsUserMessagePending ==
    [][\A p \in Procs :
        (calls[p].pc = "reply" /\ ChatAnswers(p, {"500", "error"})) =>
            LET c == calls[p].c
            IN  /\ conversationHistories' = conversationHistories
                /\ vectorstore' = vectorstore
                /\ Has(pendingUserMessages', c)
                /\ Get(pendingUserMessages', c) = calls[p].message]_vars

\* C30: every stored report is derived from a single state of its
\* conversation: the transcript its narrative was written from is the
\* transcript its financialData snapshot was extracted from, also when
\* addMessage runs while generateReport is suspended.
C30_ReportFromOneTranscript ==
    [][\A p \in Procs :
        (/\ calls[p].pc = "narrate"
         /\ calls'[p] = Idle
         /\ reports' # reports
         /\ last'.value.narrative = "resolved") =>
            calls[p].text = calls[p].extracted]_vars

\* this step is a request of clientId reaching the rate limiter
LimiterRuns(clientId) == last'.op = "rateLimiter" /\ last'.c = clientId /\ now' = now

\* the times a run of SpecLimiter can reach
LimiterTimes == {k * cleanupMs + d : k \in 0..(MaxElapses + 1), d \in {0, 1}}

\* C26: the rate limiter passes on at most 100 requests per client and
\* 15-minute window. A window begins at the first request passed on, with
\* count 1; a request is passed on while the count is below 100 and counted;
\* further requests up to resetTime are answered 429 and leave the count as it
\* is; the first request after resetTime begins a new window with count 1;
\* and the periodic cleanup changes the fate of no request.
C26_AtMostMaxRequestsPerWindow ==
    /\ [](\A clientId \in DOMAIN admitted : admitted[clientId].n <= maxRequests)
    /\ [][\A clientId \in ClientIds :
            LimiterRuns(clientId) =>
               IF ~Has(admitted, clientId) \/ now > admitted[clientId].since + windowMs
               THEN /\ last'.outcome = "next"
                    /\ rateLimitStore'[clientId] = [count |-> 1, resetTime |-> now + windowMs]
               ELSE IF admitted[clientId].n < maxRequests
               THEN /\ last'.outcome = "next"
                    /\ rateLimitStore'[clientId] =
                          [count |-> admitted[clientId].n + 1,
                           resetTime |-> admitted[clientId].since + windowMs]
               ELSE /\ last'.outcome = "429"
                    /\ rateLimitStore' = rateLimitStore
                    /\ rateLimitStore[clientId].count = maxRequests]_vars
    /\ [][last'.op = "cleanup" =>
            \A clientId \in ClientIds : \A t \in LimiterTimes :
                t >= now =>
                   /\ rateLimiter(rateLimitStore', clientId, t).status
                         = rateLimiter(rateLimitStore, clientId, t).status
                   /\ rateLimiter(rateLimitStore', clientId, t).store[clientId]
                         = rateLimiter(rateLimitStore, clientId, t).store[clientId]]_vars

C26_Witness ==
    /\ last.op = "rateLimiter"
    /\ last.c = "ip1"
    /\ last.outcome = "429"
    /\ now = rateLimitStore["ip1"].resetTime
    /\ ~Has(rateLimitStore, "unknown")
    /\ Has(admitted, "unknown")

\* the rows of the passcode table that match a verification call, used or not
MatchingRows(p) ==
    {id \in 1..Len(authorization_tokens) :
        /\ authorization_tokens[id].email = toLowerCase(calls[p].normalizedEmail)
        /\ authorization_tokens[id].token = calls[p].token}

\* C23: a passcode is accepted only while unexpired. verifyAuthToken returns
\* true only for a stored row that matches the lower-cased email and the
\* token, was unused when it was selected, and whose expires_at, 15 minutes
\* after the passcode was issued, is not before the time the call read the
\* clock; a call that reads the clock after the expires_at of every matching
\* row does not succeed.
C23_PasscodeAcceptedOnlyUnexpired ==
    [][\A p \in Procs :
        /\ (calls[p].pc = "verifyUpdate" /\ last'.op = "verifyAuthToken"
                /\ calls'[p].pc = "createSession") =>
              LET row == authorization_tokens[calls[p].id]
              IN  /\ calls[p].id \in MatchingRows(p)
                  /\ calls[p].now <= NewDate(row.expires_at)
                  /\ NewDate(row.expires_at) = row.issued + passcodeMs
        /\ (calls[p].pc = "verifySelect" /\ calls'[p].pc = "verifyUpdate") =>
              /\ calls'[p].id \in MatchingRows(p)
              /\ authorization_tokens[calls'[p].id].used = FALSE
        /\ (/\ calls[p].pc = "verifySelect"
            /\ calls'[p] # calls[p]
            /\ \A id \in MatchingRows(p) :
                  calls[p].now > authorization_tokens[id].issued + passcodeMs) =>
              /\ calls'[p] = Idle
              /\ last'.outcome = "401"]_vars

\* a verification that read the clock at the very expires_at has succeeded
C23_Witness ==
    /\ last.op = "verifyAuthToken"
    /\ last.value.now = NewDate(authorization_tokens[last.value.id].expires_at)

\* C24: a passcode is single-use: whatever the interleaving of the
\* verifyAuthToken calls, and also when the update that marks the row used
\* fails, at most one call returns true for a passcode row.
C24_PasscodeIsSingleUse ==
    \A id \in DOMAIN granted : granted[id] <= 1

\* C25: verifyClientSession goes on to return the email only for a stored
\* session row whose expires_at, 24 hours after its creation, is not before
\* the current time; and once a logout request carrying a session token has
\* been answered with success, no session row has that token, so that
\* validate-session with it answers 401.
C25_SessionEndsAtLogout ==
    [][/\ \A p \in Procs :
            (calls[p].pc = "sessionSelect" /\ calls'[p].pc = "sessionTouch") =>
               LET t == calls[p].sessionToken
               IN  /\ Has(client_sessions, t)
                   /\ calls'[p].email = client_sessions[t].email
                   /\ now <= NewDate(client_sessions[t].expires_at)
                   /\ NewDate(client_sessions[t].expires_at)
                         = client_sessions[t].created + sessionMs
       /\ \A p \in Procs :
            (calls[p].pc = "logout" /\ calls'[p] = Idle /\ last'.outcome = "200") =>
               ~Has(client_sessions', calls[p].sessionToken)]_vars

====
